---- MODULE Spec2Model ----
(***************************************************************************)
(* A model of the ETCA image codec ("Spectre tiles"): the entropy codecs   *)
(* (RLE, DEFLATE, ADVANCED, the adaptive selector), the tree builder with  *)
(* its process-global tile-id counter, the tree (de)serializer and the     *)
(* per-leaf image reconstruction.                                          *)
(*                                                                         *)
(* Byte vectors are sequences over 0..255, indexed from 1 (the C++ index   *)
(* i is the TLA+ index i+1).                                               *)
(***************************************************************************)
EXTENDS Integers, Sequences, FiniteSets, TLC

VARIABLES
    \* ---- the harness of the codecs and of the container (specifications
    \* SpecCodec and SpecContainer) ----
    cin,        \* the value handed to an encoder, serializer or writer
    cop,        \* the operation applied last
    cenc,       \* the bytes the encoder, serializer or writer produced
    cdec,       \* what the decoder, deserializer or reader returned
    \* ---- the process (specification Spec) ----
    next_tile_id_,  \* TileInflater::next_tile_id_, static: one per process
    pc,             \* which objects exist: "idle", "built", "compressed",
                    \* "decompressed", "crashed", "hung"
    the_image,          \* the ColorData handed to build / compress
    the_config,         \* the CompressionConfig in use
    the_tree,           \* the SpectreTree built last
    tree_bytes,         \* serialize_tree's output, before entropy coding
    compressed_image,   \* the CompressedImage: width, height, data
    decoded_tree,       \* the tree deserialize_tree returned
    output_image        \* the ColorData decompress returned

cvars == <<cin, cop, cenc, cdec>>
pvars == <<next_tile_id_, pc, the_image, the_config, the_tree, tree_bytes,
           compressed_image, decoded_tree, output_image>>
vars == <<cvars, pvars>>

-----------------------------------------------------------------------------
(* Bounds of the model *)

\* longest enumerated codec input
MaxLen == 6

\* images are at most MaxSide wide and high and have at most MaxPixels
\* pixels (every width x height within both)
MaxSide == 3
MaxPixels == 4

\* largest max_depth handed to build besides the configuration's default
MaxDepth == 2

\* a build starts only while next_tile_id_ is at most this
MaxNextTileId == 5

-----------------------------------------------------------------------------
(* Program constants *)

CODEC_NONE == 0
CODEC_RLE == 1
CODEC_DEFLATE == 2
CODEC_ADVANCED == 3
RLE_MARKER == 255
MATCH_MARKER == 255
MaxRun == 255
MinRun == 4
MinMatch == 3
DefaultWindowSize == 32768
DefaultMaxMatchLen == 258

Byte == 0..255

-----------------------------------------------------------------------------
(* Loops.  A C++ loop is modelled by its body, an operator Step from loop  *)
(* state to loop state that leaves a state alone once the loop condition   *)
(* is false and changes it (advances its index) otherwise, run for a       *)
(* number of rounds that is no less than the number of iterations the loop *)
(* can make.  Loop halves the rounds, so the evaluation depth grows with   *)
(* the logarithm of the rounds; a first half that changed nothing means    *)
(* the loop has ended.                                                     *)

RECURSIVE Loop(_, _, _)
Loop(Step(_), st, rounds) ==
    IF rounds <= 0 THEN st
    ELSE IF rounds = 1 THEN Step(st)
    ELSE LET mid == Loop(Step, st, rounds \div 2)
         IN  IF mid = st THEN st
             ELSE Loop(Step, mid, rounds - (rounds \div 2))

SetMin(S) == CHOOSE m \in S : \A k \in S : m <= k
SetMax(S) == CHOOSE m \in S : \A k \in S : m >= k

\* Where a scanning loop stops: the least n in lo..(limit - 1) with Stop(n),
\* or limit when there is none.  The range is searched in pieces of doubling
\* size, so the work follows the distance the loop really runs.
RECURSIVE ScanStop(_, _, _, _)
ScanStop(Stop(_), lo, limit, piece) ==
    LET hi == IF lo + piece < limit THEN lo + piece ELSE limit
        hits == {n \in lo..(hi - 1) : Stop(n)}
    IN  IF hits # {} THEN SetMin(hits)
        ELSE IF hi >= limit THEN limit
        ELSE ScanStop(Stop, hi, limit, 2 * piece)

-----------------------------------------------------------------------------
(* RLECodec.  i is the C++ (0-based) index; input[k + 1] is the C++        *)
(* input[k].                                                               *)

\* the inner while loop of RLECodec::encode: the length of the run of
\* input[i] starting at i.  The loop leaves run_length at the first
\* n >= 1 where i + n is past the end, input[i + n] differs, or n = 255.
RLECodec_run_length(input, i) ==
    LET rest == Len(input) - i
        limit == IF rest < MaxRun THEN rest ELSE MaxRun
    IN  ScanStop(LAMBDA n : input[i + n + 1] # input[i + 1], 1, limit, 2)

\* one iteration of the outer while loop of RLECodec::encode
RLECodec_encode_step(input, st) ==
    IF st.i >= Len(input) THEN st
    ELSE LET current == input[st.i + 1]
             run_length == RLECodec_run_length(input, st.i)
         IN  IF run_length >= MinRun
             THEN [i |-> st.i + run_length,
                   encoded |-> st.encoded \o <<RLE_MARKER, current, run_length % 256>>]
             ELSE IF current = RLE_MARKER
             THEN [i |-> st.i + 1,
                   encoded |-> st.encoded \o <<RLE_MARKER, RLE_MARKER>>]
             ELSE [i |-> st.i + 1, encoded |-> Append(st.encoded, current)]

RLECodec_encode(input) ==
    IF input = <<>> THEN <<CODEC_RLE>>
    ELSE Loop(LAMBDA st : RLECodec_encode_step(input, st),
              [i |-> 0, encoded |-> <<CODEC_RLE>>], Len(input)).encoded

\* for (j = 0; j < count; ++j) decoded.push_back(value)
Repeat(decoded, value, count) == decoded \o [k \in 1..count |-> value]

\* one iteration of the while loop of RLECodec::decode; a break sets i to
\* the end of the input
RLECodec_decode_step(input, st) ==
    IF st.i >= Len(input) THEN st
    ELSE IF input[st.i + 1] = RLE_MARKER
    THEN IF st.i + 1 >= Len(input) THEN [st EXCEPT !.i = Len(input)]
         ELSE IF input[st.i + 2] = RLE_MARKER
         THEN [i |-> st.i + 2, decoded |-> Append(st.decoded, RLE_MARKER)]
         ELSE IF st.i + 2 < Len(input)
         THEN [i |-> st.i + 3,
               decoded |-> Repeat(st.decoded, input[st.i + 2], input[st.i + 3])]
         ELSE [st EXCEPT !.i = Len(input)]
    ELSE [i |-> st.i + 1, decoded |-> Append(st.decoded, input[st.i + 1])]

RLECodec_decode(input) ==
    IF input = <<>> \/ input[1] # CODEC_RLE THEN <<>>
    ELSE Loop(LAMBDA st : RLECodec_decode_step(input, st),
              [i |-> 1, decoded |-> <<>>], Len(input)).decoded

-----------------------------------------------------------------------------
(* DeflateCodec.  pos, i and len are the C++ (0-based) values; data[k + 1] *)
(* is the C++ data[k].                                                     *)

\* the inner while loop of find_match: the match length of window start i
\* against position pos.  The loop leaves len at the first n >= 0 where
\* pos + n is past the end, i + n reaches pos, the bytes differ, or
\* n = max_match_len.
DeflateCodec_match_len(data, pos, i, max_match_len) ==
    LET limit == SetMin({Len(data) - pos, pos - i, max_match_len})
    IN  ScanStop(LAMBDA n : data[i + n + 1] # data[pos + n + 1], 0, limit, 2)

\* a faulty find_match loop: best_distance counted from the byte after i
DeflateCodec_scan_window_distance_off(data, pos, window_start, max_match_len) ==
    LET starts == {i \in window_start..(pos - 1) : data[i + 1] = data[pos + 1]}
        len == [i \in starts |-> DeflateCodec_match_len(data, pos, i, max_match_len)]
        match_len == SetMax({len[i] : i \in starts} \cup {0})
    IN  IF match_len = 0 THEN <<0, 0>>
        ELSE <<match_len, pos - SetMin({i \in starts : len[i] = match_len}) - 1>>

\* the for loop of find_match over the window starts window_start .. pos - 1:
\* <<match_len, best_distance>>.  A start replaces the best so far only with
\* a strictly longer match, so the loop ends with the first start that
\* reaches the greatest length, and with <<0, 0>> when every length is 0.
\* (A start whose first byte differs has length 0 and replaces nothing.)
DeflateCodec_scan_window(data, pos, window_start, max_match_len) ==
    LET starts == {i \in window_start..(pos - 1) : data[i + 1] = data[pos + 1]}
        len == [i \in starts |-> DeflateCodec_match_len(data, pos, i, max_match_len)]
        match_len == SetMax({len[i] : i \in starts} \cup {0})
    IN  IF match_len = 0 THEN <<0, 0>>
        ELSE <<match_len, pos - SetMin({i \in starts : len[i] = match_len})>>

DeflateCodec_find_match(data, pos, window_size, max_match_len) ==
    IF pos = 0 THEN <<0, 0>>
    ELSE LET window_start == IF pos > window_size THEN pos - window_size ELSE 0
             best == DeflateCodec_scan_window(data, pos, window_start,
                                              max_match_len)
         IN  IF best[1] >= MinMatch
             THEN <<best[1] % 65536, best[2] % 65536>>
             ELSE <<0, 0>>

\* one iteration of the while loop of DeflateCodec::encode
DeflateCodec_encode_step(input, st, window_size, max_match_len) ==
    IF st.i >= Len(input) THEN st
    ELSE LET m == DeflateCodec_find_match(input, st.i, window_size, max_match_len)
             match_len == m[1]
             distance == m[2]
         IN  IF match_len > 0
             THEN [i |-> st.i + match_len,
                   encoded |-> st.encoded \o
                       <<MATCH_MARKER,
                         (match_len \div 256) % 256, match_len % 256,
                         (distance \div 256) % 256, distance % 256>>]
             ELSE IF input[st.i + 1] = MATCH_MARKER
             THEN [i |-> st.i + 1,
                   encoded |-> st.encoded \o <<MATCH_MARKER, MATCH_MARKER>>]
             ELSE [i |-> st.i + 1,
                   encoded |-> Append(st.encoded, input[st.i + 1])]

DeflateCodec_encode(input, window_size, max_match_len) ==
    IF input = <<>> THEN <<CODEC_DEFLATE>>
    ELSE Loop(LAMBDA st : DeflateCodec_encode_step(input, st, window_size,
                                                   max_match_len),
              [i |-> 0, encoded |-> <<CODEC_DEFLATE>>], Len(input)).encoded

\* one iteration of the copy loop of DeflateCodec::decode: src =
\* decoded.size() - dist is computed once, in size_t; src + j indexes the
\* buffer only when it does not wrap (src + j >= 0 here) and lies inside the
\* buffer as grown so far
DeflateCodec_copy_step(st, src, len) ==
    IF st.j >= len THEN st
    ELSE [j |-> st.j + 1,
          decoded |-> IF src + st.j >= 0 /\ src + st.j < Len(st.decoded)
                      THEN Append(st.decoded, st.decoded[src + st.j + 1])
                      ELSE st.decoded]

DeflateCodec_copy(decoded, src, len) ==
    Loop(LAMBDA st : DeflateCodec_copy_step(st, src, len),
         [j |-> 0, decoded |-> decoded], len).decoded

\* one iteration of the while loop of DeflateCodec::decode; a break sets i
\* to the end of the input
DeflateCodec_decode_step(input, st) ==
    IF st.i >= Len(input) THEN st
    ELSE IF input[st.i + 1] = MATCH_MARKER
    THEN IF st.i + 1 >= Len(input) THEN [st EXCEPT !.i = Len(input)]
         ELSE IF input[st.i + 2] = MATCH_MARKER
         THEN [i |-> st.i + 2, decoded |-> Append(st.decoded, MATCH_MARKER)]
         ELSE IF st.i + 4 < Len(input)
         THEN LET len == input[st.i + 2] * 256 + input[st.i + 3]
                  dist == input[st.i + 4] * 256 + input[st.i + 5]
              IN  [i |-> st.i + 5,
                   decoded |-> DeflateCodec_copy(st.decoded,
                                                 Len(st.decoded) - dist, len)]
         ELSE [st EXCEPT !.i = Len(input)]
    ELSE [i |-> st.i + 1, decoded |-> Append(st.decoded, input[st.i + 1])]

DeflateCodec_decode(input) ==
    IF input = <<>> \/ input[1] # CODEC_DEFLATE THEN <<>>
    ELSE Loop(LAMBDA st : DeflateCodec_decode_step(input, st),
              [i |-> 1, decoded |-> <<>>], Len(input)).decoded

-----------------------------------------------------------------------------
(* AdvancedCodec *)

\* a faulty delta step: a negative difference is clamped to 0 instead of
\* wrapping modulo 256
AdvancedCodec_delta_encode_clamped(input) ==
    [i \in 1..Len(input) |->
        IF i = 1 THEN input[1]
        ELSE IF input[i] < input[i - 1] THEN 0
        ELSE input[i] - input[i - 1]]

\* uint8_t delta = input[i] - input[i - 1]
AdvancedCodec_delta_encode(input) ==
    [i \in 1..Len(input) |->
        IF i = 1 THEN input[1] ELSE (input[i] - input[i - 1] + 256) % 256]

\* one iteration of the loop of delta_decode:
\* uint8_t value = decoded[i - 1] + input[i]
AdvancedCodec_delta_decode_step(input, decoded) ==
    IF Len(decoded) >= Len(input) THEN decoded
    ELSE Append(decoded, (decoded[Len(decoded)] + input[Len(decoded) + 1]) % 256)

AdvancedCodec_delta_decode(input) ==
    IF input = <<>> THEN input
    ELSE Loop(LAMBDA decoded : AdvancedCodec_delta_decode_step(input, decoded),
              <<input[1]>>, Len(input))

AdvancedCodec_encode(input) ==
    IF input = <<>> THEN <<CODEC_ADVANCED>>
    ELSE LET delta_encoded == AdvancedCodec_delta_encode(input)
             deflate_result == DeflateCodec_encode(delta_encoded,
                                   DefaultWindowSize, DefaultMaxMatchLen)
         IN  <<CODEC_ADVANCED>> \o Tail(deflate_result)

AdvancedCodec_decode(input) ==
    IF input = <<>> \/ input[1] # CODEC_ADVANCED THEN <<>>
    ELSE LET deflate_input == <<CODEC_DEFLATE>> \o Tail(input)
             delta_decoded == DeflateCodec_decode(deflate_input)
         IN  AdvancedCodec_delta_decode(delta_decoded)

-----------------------------------------------------------------------------
(* AdaptiveEncoder *)

\* A compression ratio original_size / max(1, compressed_size), kept as the
\* pair <<numerator, denominator>>; a > b is decided by cross-multiplication
\* (the sizes of the model are far below 2^24, where the float quotients of
\* two different sizes differ).
Ratio(original_size, compressed_size) ==
    <<original_size, IF compressed_size < 1 THEN 1 ELSE compressed_size>>

RatioGreater(a, b) == a[1] * b[2] > b[1] * a[2]

\* AdaptiveEncoder::encode keeps &deflate.get_stats() and
\* &advanced.get_stats() in results, and deflate and advanced are locals of
\* the if-block: both pointers dangle when the selection loop reads
\* compression_ratio through them.  A read returns the value the codec left
\* there ("intact") or whatever the dead stack slot holds now.
StaleReads == {"intact", "low", "high"}
StaleChoices == [2..3 -> StaleReads]

StaleRatio(ratio, read) ==
    CASE read = "intact" -> ratio
      [] read = "low"    -> <<0, 1>>
      [] read = "high"   -> <<100000, 1>>

\* the selection loop: i runs over results[1..], best_idx is kept 1-based
RECURSIVE AdaptiveEncoder_pick(_, _, _, _)
AdaptiveEncoder_pick(ratios, i, best_idx, best_ratio) ==
    IF i > Len(ratios) THEN best_idx
    ELSE IF RatioGreater(ratios[i], best_ratio)
    THEN AdaptiveEncoder_pick(ratios, i + 1, i, ratios[i])
    ELSE AdaptiveEncoder_pick(ratios, i + 1, best_idx, best_ratio)

\* the results vector: every codec tried, in order
AdaptiveEncoder_results(input, prefer_speed) ==
    IF prefer_speed THEN <<RLECodec_encode(input)>>
    ELSE <<RLECodec_encode(input),
           DeflateCodec_encode(input, DefaultWindowSize, DefaultMaxMatchLen),
           AdvancedCodec_encode(input)>>

\* the selection among results, given what the dangling reads return
AdaptiveEncoder_select(input, results, stale) ==
    LET ratios == [i \in 1..Len(results) |->
                     IF i = 1 THEN Ratio(Len(input), Len(results[i]))
                     ELSE StaleRatio(Ratio(Len(input), Len(results[i])),
                                     stale[i])]
        best_idx == AdaptiveEncoder_pick(ratios, 2, 1, ratios[1])
    IN  results[best_idx]

AdaptiveEncoder_encode(input, prefer_speed, stale) ==
    IF input = <<>> THEN <<CODEC_NONE>>
    ELSE AdaptiveEncoder_select(input,
             AdaptiveEncoder_results(input, prefer_speed), stale)

AdaptiveEncoder_decode(input) ==
    IF input = <<>> THEN <<>>
    ELSE CASE input[1] = CODEC_RLE      -> RLECodec_decode(input)
           [] input[1] = CODEC_DEFLATE  -> DeflateCodec_decode(input)
           [] input[1] = CODEC_ADVANCED -> AdvancedCodec_decode(input)
           [] OTHER                     -> Tail(input)

-----------------------------------------------------------------------------
(* ColorData: [width, height, pixels], pixels row-major, a colour <<r,g,b>> *)

BLACK == <<0, 0, 0>>

\* ColorData(width, height): every pixel Color(0, 0, 0)
ColorData_new(width, height) ==
    [width |-> width, height |-> height,
     pixels |-> [k \in 1..(width * height) |-> BLACK]]

ColorData_get_pixel(image, x, y) ==
    IF x < image.width /\ y < image.height
    THEN image.pixels[y * image.width + x + 1]
    ELSE BLACK

ColorData_set_pixel(image, x, y, color) ==
    IF x < image.width /\ y < image.height
    THEN [image EXCEPT !.pixels[y * image.width + x + 1] = color]
    ELSE image

\* a faulty extract_region: the pixels are taken from the image's top-left
\* corner, whatever x and y are
ColorData_extract_region_origin(image, x, y, width, height) ==
    [width |-> width, height |-> height,
     pixels |-> [k \in 1..(width * height) |->
                    ColorData_get_pixel(image, (k - 1) % width,
                                        (k - 1) \div width)]]

\* the region starts black, and a pixel is copied only from inside the image
ColorData_extract_region(image, x, y, width, height) ==
    [width |-> width, height |-> height,
     pixels |-> [k \in 1..(width * height) |->
                    LET col == (k - 1) % width
                        row == (k - 1) \div width
                    IN  IF x + col < image.width /\ y + row < image.height
                        THEN ColorData_get_pixel(image, x + col, y + row)
                        ELSE BLACK]]

RECURSIVE SeqSum(_, _)
SeqSum(f, n) == IF n = 0 THEN 0 ELSE f[n] + SeqSum(f, n - 1)

ChannelSum(pixels, c) == SeqSum([k \in 1..Len(pixels) |-> pixels[k][c]], Len(pixels))

\* sum / count in integers, each channel cast to uint8_t
ColorData_calculate_average_color(image) ==
    IF image.pixels = <<>> THEN BLACK
    ELSE [c \in 1..3 |->
            (ChannelSum(image.pixels, c) \div Len(image.pixels)) % 256]

-----------------------------------------------------------------------------
(* VarianceCalculator.  The code's value is                                *)
(*   variance = (sd_r + sd_g + sd_b) / 3,  sd_c = sqrt(var_c) / 255,       *)
(*   var_c = mean((p_c - mean_c)^2)                                        *)
(* in doubles.  With n pixels, n^2 * var_c = n * sum(p^2) - sum(p)^2 =: D_c *)
(* is an integer, and variance > t is                                      *)
(*   sqrt(D_r) + sqrt(D_g) + sqrt(D_b) > 765 * n * t.                      *)
(* The model keeps a threshold in thousandths and each square root in      *)
(* tenths (rounded down).                                                  *)

\* floor(sqrt(x)) by bisection on lo <= sqrt(x) < hi
RECURSIVE ISqrtBetween(_, _, _)
ISqrtBetween(x, lo, hi) ==
    IF hi - lo <= 1 THEN lo
    ELSE LET mid == (lo + hi) \div 2
         IN  IF mid * mid <= x THEN ISqrtBetween(x, mid, hi)
             ELSE ISqrtBetween(x, lo, mid)

ISqrt(x) == ISqrtBetween(x, 0, 46341)

\* D_c of the comment above
ChannelSpread(pixels, c) ==
    LET n == Len(pixels)
        sum == ChannelSum(pixels, c)
        squares == SeqSum([k \in 1..n |-> pixels[k][c] * pixels[k][c]], n)
    IN  n * squares - sum * sum

\* 10 * (sqrt(D_r) + sqrt(D_g) + sqrt(D_b)), each root rounded down to a tenth
VarianceCalculator_spread_tenths(data) ==
    IF data.pixels = <<>> THEN 0
    ELSE ISqrt(100 * ChannelSpread(data.pixels, 1))
           + ISqrt(100 * ChannelSpread(data.pixels, 2))
           + ISqrt(100 * ChannelSpread(data.pixels, 3))

\* calculate_variance(data) > threshold, threshold in thousandths; the
\* variance of a region without pixels is 0.0
VarianceCalculator_should_subdivide(data, threshold) ==
    IF data.pixels = <<>> THEN 0 > threshold
    ELSE 100 * VarianceCalculator_spread_tenths(data)
             > 765 * Len(data.pixels) * threshold

-----------------------------------------------------------------------------
(* TileInflater *)

CHILDREN_PER_TILE == 4

\* a faulty split: both halves get floor(size / 2), so an odd size loses its
\* last column or row
TileInflater_get_child_bounds_floor(parent_width, parent_height, child_index) ==
    LET left_width == parent_width \div 2
        right_width == parent_width \div 2
        top_height == parent_height \div 2
        bottom_height == parent_height \div 2
    IN  CASE child_index = 0 -> <<0, 0, left_width, top_height>>
          [] child_index = 1 -> <<left_width, 0, right_width, top_height>>
          [] child_index = 2 -> <<0, top_height, left_width, bottom_height>>
          [] child_index = 3 -> <<left_width, top_height, right_width, bottom_height>>
          [] OTHER           -> <<0, 0, 1, 1>>

\* <<child_x, child_y, child_width, child_height>>
TileInflater_get_child_bounds(parent_width, parent_height, child_index) ==
    LET left_width == (parent_width + 1) \div 2
        right_width == parent_width - left_width
        top_height == (parent_height + 1) \div 2
        bottom_height == parent_height - top_height
    IN  CASE child_index = 0 -> <<0, 0, left_width, top_height>>
          [] child_index = 1 -> <<left_width, 0, right_width, top_height>>
          [] child_index = 2 -> <<0, top_height, left_width, bottom_height>>
          [] child_index = 3 -> <<left_width, top_height, right_width, bottom_height>>
          [] OTHER           -> <<0, 0, 1, 1>>

\* the ids inflate_tile hands out: CHILDREN_PER_TILE values of next_tile_id_++
TileInflater_inflate_tile(next_tile_id) ==
    [k \in 1..CHILDREN_PER_TILE |-> next_tile_id + k - 1]

-----------------------------------------------------------------------------
(* SpectreTile and SpectreTree.  tiles and id_to_address are the two       *)
(* std::maps, functions from ids.                                          *)

ROOT_ID == 1

SpectreTile_new(id, depth, parent_id) ==
    [id |-> id, depth |-> depth, parent_id |-> parent_id,
     children |-> <<>>, color |-> BLACK]

\* tiles_[id] = tile, id_to_address_[id] = address
MapPut(map, key, value) ==
    IF key \in DOMAIN map THEN [map EXCEPT ![key] = value]
    ELSE (key :> value) @@ map

SpectreTree_new(image_width, image_height) ==
    [image_width |-> image_width, image_height |-> image_height,
     root_id |-> ROOT_ID, max_depth |-> 0,
     tiles |-> (ROOT_ID :> SpectreTile_new(ROOT_ID, 0, 0)),
     id_to_address |-> (ROOT_ID :> <<>>)]

SpectreTree_get_address(tree, id) ==
    IF id \in DOMAIN tree.id_to_address THEN tree.id_to_address[id] ELSE <<>>

\* the ids of a std::map in iteration order (ascending)
RECURSIVE SortedIds(_)
SortedIds(ids) ==
    IF ids = {} THEN <<>>
    ELSE LET m == SetMin(ids) IN <<m>> \o SortedIds(ids \ {m})

SpectreTree_get_all_tiles(tree) == SortedIds(DOMAIN tree.tiles)

SpectreTree_get_leaf_nodes(tree) ==
    SortedIds({id \in DOMAIN tree.tiles : tree.tiles[id].children = <<>>})

\* What tile.get_id() returns in the child loop of build_recursive.  The
\* loop holds `tile` by reference; tiles_[child_id] = std::move(child_tile)
\* destroys the object behind it when child_id is the tile's own id, and the
\* later iterations read id_ from freed memory: the bytes as they were (the
\* id itself, which names a tile of the tree) or whatever the allocator or a
\* later object put there (GARBAGE_ID stands for a value that names none).
GARBAGE_ID == 1000000
StaleIdReads == {ROOT_ID, GARBAGE_ID}
StaleIdChoices == [1..(CHILDREN_PER_TILE - 1) -> StaleIdReads]

\* build state: st.tree and st.next_tile_id (TileInflater::next_tile_id_)
RECURSIVE SpectreTree_build_recursive(_, _, _, _, _, _, _, _)
RECURSIVE SpectreTree_build_children(_, _, _, _, _, _, _, _, _, _, _)

\* the for loop over children, from child i on; alive is whether the object
\* `tile` refers to still exists
SpectreTree_build_children(st, tile_id, alive, image, address, variance_threshold, current_depth, max_depth, children, i, stale) ==
    IF i >= Len(children) THEN st
    ELSE LET b == TileInflater_get_child_bounds(image.width, image.height, i)
             child_image == ColorData_extract_region(image, b[1], b[2], b[3], b[4])
             child_id == children[i + 1]
             parent_read == IF alive THEN tile_id ELSE stale[i]
             child_tile == SpectreTile_new(child_id, current_depth + 1, parent_read)
             child_address == Append(address, i)
             st1 == [st EXCEPT
                       !.tree.tiles = MapPut(@, child_id, child_tile),
                       !.tree.id_to_address = MapPut(@, child_id, child_address)]
             st2 == SpectreTree_build_recursive(st1, child_id, child_image,
                        child_address, variance_threshold,
                        current_depth + 1, max_depth, stale)
         IN  SpectreTree_build_children(st2, tile_id,
                 alive /\ child_id # tile_id, image, address,
                 variance_threshold, current_depth, max_depth,
                 children, i + 1, stale)

\* a faulty build_recursive: the depth test lets a tile at max_depth split
SpectreTree_build_recursive_one_deeper(st, tile_id, image, address, variance_threshold, current_depth, max_depth, stale) ==
    LET avg_color == ColorData_calculate_average_color(image)
        st1 == [st EXCEPT
                  !.tree.max_depth = IF current_depth > @ THEN current_depth ELSE @,
                  !.tree.tiles[tile_id].color = avg_color]
    IN  IF \/ current_depth > max_depth
           \/ ~VarianceCalculator_should_subdivide(image, variance_threshold)
        THEN st1
        ELSE LET children == TileInflater_inflate_tile(st1.next_tile_id)
                 st2 == [st1 EXCEPT
                           !.next_tile_id = @ + CHILDREN_PER_TILE,
                           !.tree.tiles[tile_id].children = @ \o children]
             IN  SpectreTree_build_children(st2, tile_id, TRUE, image, address,
                     variance_threshold, current_depth, max_depth,
                     children, 0, stale)

SpectreTree_build_recursive(st, tile_id, image, address, variance_threshold, current_depth, max_depth, stale) ==
    LET avg_color == ColorData_calculate_average_color(image)
        st1 == [st EXCEPT
                  !.tree.max_depth = IF current_depth > @ THEN current_depth ELSE @,
                  !.tree.tiles[tile_id].color = avg_color]
    IN  IF \/ current_depth >= max_depth
           \/ ~VarianceCalculator_should_subdivide(image, variance_threshold)
        THEN st1
        ELSE LET children == TileInflater_inflate_tile(st1.next_tile_id)
                 st2 == [st1 EXCEPT
                           !.next_tile_id = @ + CHILDREN_PER_TILE,
                           !.tree.tiles[tile_id].children = @ \o children]
             IN  SpectreTree_build_children(st2, tile_id, TRUE, image, address,
                     variance_threshold, current_depth, max_depth,
                     children, 0, stale)

\* SpectreTree tree(w, h); tree.build(image, variance_threshold, max_depth)
SpectreTree_build(next_tile_id, image, variance_threshold, max_depth, stale) ==
    SpectreTree_build_recursive(
        [tree |-> SpectreTree_new(image.width, image.height),
         next_tile_id |-> next_tile_id],
        ROOT_ID, image, <<>>, variance_threshold, 0, max_depth, stale)

-----------------------------------------------------------------------------
(* Compressor::serialize_tree *)

U16BE(x) == <<(x \div 256) % 256, x % 256>>

U32BE(x) == <<(x \div 16777216) % 256, (x \div 65536) % 256,
              (x \div 256) % 256, x % 256>>

NO_INDEX == 65535

\* the value the counter `uint16_t index` of the first pass has when the
\* tile at this position (0-based) of the enumeration gets its index
Compressor_tile_index(position) == position % 65536

\* first pass: uint16_t index = 0; id_to_index[tile_id] = index++
Compressor_id_to_index(all_tiles) ==
    [id \in {all_tiles[k] : k \in 1..Len(all_tiles)} |->
        Compressor_tile_index(
            (CHOOSE k \in 1..Len(all_tiles) : all_tiles[k] = id) - 1)]

RECURSIVE Compressor_child_indices(_, _, _)
Compressor_child_indices(children, id_to_index, k) ==
    IF k > Len(children) THEN <<>>
    ELSE U16BE(IF children[k] \in DOMAIN id_to_index
               THEN id_to_index[children[k]] ELSE NO_INDEX)
         \o Compressor_child_indices(children, id_to_index, k + 1)

\* index(2) | depth(1) | parent_index(2) | r | g | b | child_count(1) | child_index(2)...
Compressor_tile_record(tile, tile_index, id_to_index) ==
    LET parent_index ==
            IF tile.parent_id > 0 /\ tile.parent_id \in DOMAIN id_to_index
            THEN id_to_index[tile.parent_id] ELSE NO_INDEX
    IN  U16BE(tile_index) \o <<tile.depth % 256>> \o U16BE(parent_index)
          \o tile.color \o <<Len(tile.children) % 256>>
          \o Compressor_child_indices(tile.children, id_to_index, 1)

RECURSIVE Compressor_tile_records(_, _, _, _)
Compressor_tile_records(tree, all_tiles, id_to_index, k) ==
    IF k > Len(all_tiles) THEN <<>>
    ELSE Compressor_tile_record(tree.tiles[all_tiles[k]],
                                id_to_index[all_tiles[k]], id_to_index)
         \o Compressor_tile_records(tree, all_tiles, id_to_index, k + 1)

Compressor_serialize_tree(tree, image) ==
    LET all_tiles == SpectreTree_get_all_tiles(tree)
        id_to_index == Compressor_id_to_index(all_tiles)
    IN  U32BE(image.width) \o U32BE(image.height)
          \o U32BE(Cardinality(DOMAIN tree.tiles))
          \o U16BE(tree.max_depth % 65536)
          \o Compressor_tile_records(tree, all_tiles, id_to_index, 1)

-----------------------------------------------------------------------------
(* Decompressor *)

\* the bytes at 0-based offset off
ReadU16(data, off) == data[off + 1] * 256 + data[off + 2]

ReadU32(data, off) ==
    data[off + 1] * 16777216 + data[off + 2] * 65536
      + data[off + 3] * 256 + data[off + 4]

\* tiles_[id] = tile with the colour and children; the placeholder address
\* of `depth` zeros; max_depth_
SpectreTree_add_deserialized_tile(tree, id, depth, parent_id, color, children) ==
    [tree EXCEPT
       !.tiles = MapPut(@, id, [id |-> id, depth |-> depth,
                                parent_id |-> parent_id,
                                children |-> children, color |-> color]),
       !.id_to_address = MapPut(@, id, [k \in 1..depth |-> 0]),
       !.max_depth = IF depth > @ THEN depth ELSE @]

SpectreTree_set_tile_address(tree, id, address) ==
    [tree EXCEPT !.id_to_address = MapPut(@, id, address)]

\* the child loop of one record: children and tile_to_parent_and_position
RECURSIVE Decompressor_parse_children(_, _, _, _, _, _)
Decompressor_parse_children(data, off, tile_id, child_count, j, acc) ==
    IF j >= child_count THEN acc
    ELSE LET child_index == ReadU16(data, off + 2 * j)
             child_id == IF child_index = NO_INDEX THEN 0 ELSE child_index + 1
         IN  Decompressor_parse_children(data, off, tile_id, child_count, j + 1,
                 [children |-> Append(acc.children, child_id),
                  map |-> MapPut(acc.map, child_id, <<tile_id, j>>)])

\* one round of the record loop.  st.oob records a write to
\* index_to_id[tile_index] with tile_index >= tile_count, outside the vector.
Decompressor_parse_record(data, tile_count, st) ==
    IF st.stop \/ st.off >= Len(data) THEN [st EXCEPT !.stop = TRUE]
    ELSE IF st.off + 9 > Len(data) THEN [st EXCEPT !.stop = TRUE]
    ELSE LET tile_index == ReadU16(data, st.off)
             tile_id == tile_index + 1
             tile_depth == data[st.off + 3]
             parent_index == ReadU16(data, st.off + 3)
             parent_id == IF parent_index = NO_INDEX THEN 0 ELSE parent_index + 1
             color == <<data[st.off + 6], data[st.off + 7], data[st.off + 8]>>
             child_count == data[st.off + 9]
             oob == st.oob \/ tile_index >= tile_count
         IN  IF st.off + 9 + child_count * 2 > Len(data)
             THEN [st EXCEPT !.stop = TRUE, !.oob = oob]
             ELSE LET parsed == Decompressor_parse_children(data, st.off + 9,
                                    tile_id, child_count, 0,
                                    [children |-> <<>>, map |-> st.map])
                  IN  [st EXCEPT
                         !.off = st.off + 9 + child_count * 2,
                         !.oob = oob,
                         !.map = parsed.map,
                         !.tree = SpectreTree_add_deserialized_tile(@, tile_id,
                                      tile_depth, parent_id, color,
                                      parsed.children)]

\* the walk up tile_to_parent_and_position from one tile: the positions
\* collected (leaf first) and whether the while loop ended.  The map has
\* finitely many keys, so a walk longer than their number is in a cycle.
Decompressor_walk_step(map, st) ==
    IF st.current \in DOMAIN map
    THEN [current |-> map[st.current][1],
          path |-> Append(st.path, map[st.current][2])]
    ELSE st

Decompressor_walk(map, tile_id) ==
    LET end == Loop(LAMBDA st : Decompressor_walk_step(map, st),
                    [current |-> tile_id, path |-> <<>>],
                    Cardinality(DOMAIN map) + 1)
    IN  [path |-> end.path, ended |-> end.current \notin DOMAIN map]

Reverse(s) == [k \in 1..Len(s) |-> s[Len(s) + 1 - k]]

RECURSIVE Decompressor_reconstruct_addresses(_, _, _)
Decompressor_reconstruct_addresses(tree, map, ids) ==
    IF ids = <<>> THEN tree
    ELSE Decompressor_reconstruct_addresses(
             SpectreTree_set_tile_address(tree, Head(ids),
                 Reverse(Decompressor_walk(map, Head(ids)).path)),
             map, Tail(ids))

\* one iteration of the while loop of the old-format branch; a break sets
\* data_offset to the end of the data
Decompressor_legacy_rle_step(data, st) ==
    IF st.data_offset >= Len(data) THEN st
    ELSE LET byte == data[st.data_offset + 1]
         IN  IF byte = RLE_MARKER
             THEN IF st.data_offset + 1 >= Len(data)
                  THEN [st EXCEPT !.data_offset = Len(data)]
                  ELSE LET next_byte == data[st.data_offset + 2]
                       IN  IF next_byte = RLE_MARKER
                           THEN [data_offset |-> st.data_offset + 2,
                                 decoded_data |-> Append(st.decoded_data, RLE_MARKER)]
                           ELSE IF st.data_offset + 2 < Len(data)
                           THEN [data_offset |-> st.data_offset + 3,
                                 decoded_data |-> Repeat(st.decoded_data, next_byte,
                                                         data[st.data_offset + 3])]
                           ELSE [st EXCEPT !.data_offset = st.data_offset + 2]
             ELSE [data_offset |-> st.data_offset + 1,
                   decoded_data |-> Append(st.decoded_data, byte)]

\* a faulty dispatch: the old-format test comes before the codec markers
Decompressor_decode_payload_legacy_first(data) ==
    IF data[1] = 1
    THEN [branch |-> "legacy RLE",
          decoded_data |-> Loop(LAMBDA st : Decompressor_legacy_rle_step(data, st),
                                [data_offset |-> 1, decoded_data |-> <<>>],
                                Len(data)).decoded_data]
    ELSE IF data[1] = 0
    THEN [branch |-> "legacy unencoded", decoded_data |-> Tail(data)]
    ELSE IF data[1] \in {CODEC_NONE, CODEC_RLE, CODEC_DEFLATE, CODEC_ADVANCED}
    THEN [branch |-> "entropy", decoded_data |-> AdaptiveEncoder_decode(data)]
    ELSE [branch |-> "unknown", decoded_data |-> data]

\* the if / else-if chain on data[0] of deserialize_tree (data is not empty):
\* the branch taken and decoded_data
Decompressor_decode_payload(data) ==
    IF data[1] \in {CODEC_NONE, CODEC_RLE, CODEC_DEFLATE, CODEC_ADVANCED}
    THEN [branch |-> "entropy", decoded_data |-> AdaptiveEncoder_decode(data)]
    ELSE IF data[1] = 1
    THEN [branch |-> "legacy RLE",
          decoded_data |-> Loop(LAMBDA st : Decompressor_legacy_rle_step(data, st),
                                [data_offset |-> 1, decoded_data |-> <<>>],
                                Len(data)).decoded_data]
    ELSE IF data[1] = 0
    THEN [branch |-> "legacy unencoded", decoded_data |-> Tail(data)]
    ELSE [branch |-> "unknown", decoded_data |-> data]

\* the result: the tree, whether index_to_id was written out of bounds,
\* whether every address walk ended (deserialize_tree does not return
\* otherwise), the branch taken on data[0] and the bytes parsed
Decompressor_deserialize_tree(data, width, height) ==
    LET tree == SpectreTree_new(width, height)
        done(payload) ==
            [tree |-> tree, oob |-> FALSE, returns |-> TRUE,
             branch |-> payload.branch, decoded_data |-> payload.decoded_data]
        rebuilt(payload, parsed) ==
            [tree |-> Decompressor_reconstruct_addresses(
                          parsed.tree, parsed.map, SortedIds(DOMAIN parsed.map)),
             oob |-> parsed.oob,
             returns |-> \A id \in DOMAIN parsed.map :
                             Decompressor_walk(parsed.map, id).ended,
             branch |-> payload.branch,
             decoded_data |-> payload.decoded_data]
        parse(payload) ==
            IF Len(payload.decoded_data) < 14 THEN done(payload)
            ELSE IF \/ ReadU32(payload.decoded_data, 0) # width
                    \/ ReadU32(payload.decoded_data, 4) # height
            THEN done(payload)
            ELSE rebuilt(payload,
                     Loop(LAMBDA st : Decompressor_parse_record(
                                          payload.decoded_data,
                                          ReadU32(payload.decoded_data, 8), st),
                          [off |-> 14, tree |-> tree, map |-> <<>>,
                           oob |-> FALSE, stop |-> FALSE],
                          ReadU32(payload.decoded_data, 8)))
    IN  IF data = <<>> THEN done([branch |-> "none", decoded_data |-> <<>>])
        ELSE parse(Decompressor_decode_payload(data))

\* <<x, y, width, height>> of a tile, from its address
RECURSIVE Decompressor_bounds_from(_, _, _)
Decompressor_bounds_from(address, k, cur) ==
    IF k > Len(address) THEN cur
    ELSE LET c == TileInflater_get_child_bounds(cur[3], cur[4], address[k])
         IN  Decompressor_bounds_from(address, k + 1,
                 <<cur[1] + c[1], cur[2] + c[2], c[3], c[4]>>)

Decompressor_calculate_tile_bounds(tree, tile_id, image_width, image_height) ==
    Decompressor_bounds_from(SpectreTree_get_address(tree, tile_id), 1,
                             <<0, 0, image_width, image_height>>)

\* one leaf painted: every pixel of the clamped rectangle set to its colour
Decompressor_paint_leaf(tree, image, leaf_id) ==
    LET b == Decompressor_calculate_tile_bounds(tree, leaf_id,
                 image.width, image.height)
        end_x == IF b[1] + b[3] > image.width THEN image.width ELSE b[1] + b[3]
        end_y == IF b[2] + b[4] > image.height THEN image.height ELSE b[2] + b[4]
    IN  [image EXCEPT !.pixels =
            [k \in 1..Len(@) |->
                LET x == (k - 1) % image.width
                    y == (k - 1) \div image.width
                IN  IF x >= b[1] /\ x < end_x /\ y >= b[2] /\ y < end_y
                    THEN tree.tiles[leaf_id].color
                    ELSE @[k]]]

RECURSIVE Decompressor_paint_leaves(_, _, _, _)
Decompressor_paint_leaves(tree, image, leaves, k) ==
    IF k > Len(leaves) THEN image
    ELSE Decompressor_paint_leaves(tree,
             Decompressor_paint_leaf(tree, image, leaves[k]), leaves, k + 1)

\* the leaves in get_leaf_nodes order, one after the other (a build without
\* OpenMP); should_interpolate is false
Decompressor_reconstruct_image(tree) ==
    Decompressor_paint_leaves(tree,
        ColorData_new(tree.image_width, tree.image_height),
        SpectreTree_get_leaf_nodes(tree), 1)

\* the pixels <<x, y>> the fill loops of one leaf write: its rectangle,
\* clamped to the image
Decompressor_fill_region(tree, leaf_id) ==
    LET width == tree.image_width
        height == tree.image_height
        b == Decompressor_calculate_tile_bounds(tree, leaf_id, width, height)
        end_x == IF b[1] + b[3] > width THEN width ELSE b[1] + b[3]
        end_y == IF b[2] + b[4] > height THEN height ELSE b[2] + b[4]
    IN  {xy \in (0..(width - 1)) \X (0..(height - 1)) :
            /\ xy[1] >= b[1] /\ xy[1] < end_x
            /\ xy[2] >= b[2] /\ xy[2] < end_y}

\* every image the leaf loop can leave.  With ETCA_OPENMP the iterations of
\* the loop run on concurrent threads, and a pixel two leaves write keeps
\* the colour of whichever set_pixel comes last; without it the leaves are
\* painted in get_leaf_nodes order, which is one of these images.
Decompressor_reconstruct_image_outcomes(tree) ==
    LET image == ColorData_new(tree.image_width, tree.image_height)
        leaves == SpectreTree_get_leaf_nodes(tree)
        regions == [i \in 1..Len(leaves) |->
                       Decompressor_fill_region(tree, leaves[i])]
        colors == [k \in 1..Len(image.pixels) |->
                     LET xy == <<(k - 1) % image.width, (k - 1) \div image.width>>
                         writers == {i \in 1..Len(leaves) : xy \in regions[i]}
                     IN  IF writers = {} THEN {image.pixels[k]}
                         ELSE {tree.tiles[leaves[i]].color : i \in writers}]
        all == UNION {colors[k] : k \in 1..Len(image.pixels)}
    IN  {[image EXCEPT !.pixels = px] :
            px \in {f \in [1..Len(image.pixels) -> all] :
                       \A k \in 1..Len(image.pixels) : f[k] \in colors[k]}}

-----------------------------------------------------------------------------
(* The .etca container: EtcaHeader, EtcaMetadata.  A std::string is the     *)
(* sequence of its character codes; EtcaMetadata's std::map is a function   *)
(* from keys to values.                                                     *)

MAGIC == <<69, 84, 67, 65>>
VERSION == 1
COLOR_DEPTH_RGB24 == 24
HEADER_SIZE == 20
LOSSY == 0
LOSSLESS == 1
EQUALS == 61
NEWLINE == 10

\* a faulty serialize: width and height written low byte first
EtcaHeader_serialize_little_endian(header) ==
    MAGIC \o <<header.format_version, header.compression_mode>>
      \o Reverse(U32BE(header.width)) \o Reverse(U32BE(header.height))
      \o <<header.color_depth>> \o U32BE(header.metadata_size) \o <<0>>

EtcaHeader_serialize(header) ==
    MAGIC \o <<header.format_version, header.compression_mode>>
      \o U32BE(header.width) \o U32BE(header.height)
      \o <<header.color_depth>> \o U32BE(header.metadata_size) \o <<0>>

NoHeader == [format_version |-> 0, compression_mode |-> 0, width |-> 0,
             height |-> 0, color_depth |-> 0, metadata_size |-> 0]

\* a faulty deserialize: the version is checked before the magic
EtcaHeader_deserialize_version_first(data) ==
    IF Len(data) < HEADER_SIZE
    THEN [error |-> "header too small", header |-> NoHeader]
    ELSE IF data[5] # VERSION
    THEN [error |-> "unsupported format version", header |-> NoHeader]
    ELSE IF SubSeq(data, 1, 4) # MAGIC
    THEN [error |-> "magic bytes do not match", header |-> NoHeader]
    ELSE LET header == [format_version |-> data[5],
                        compression_mode |-> data[6],
                        width |-> ReadU32(data, 6),
                        height |-> ReadU32(data, 10),
                        color_depth |-> data[15],
                        metadata_size |-> ReadU32(data, 15)]
         IN  IF header.width = 0 \/ header.height = 0
             THEN [error |-> "invalid image dimensions", header |-> NoHeader]
             ELSE [error |-> "none", header |-> header]

\* the header returned, or the std::runtime_error thrown (error is "none"
\* when the call returns)
EtcaHeader_deserialize(data) ==
    IF Len(data) < HEADER_SIZE
    THEN [error |-> "header too small", header |-> NoHeader]
    ELSE IF SubSeq(data, 1, 4) # MAGIC
    THEN [error |-> "magic bytes do not match", header |-> NoHeader]
    ELSE IF data[5] # VERSION
    THEN [error |-> "unsupported format version", header |-> NoHeader]
    ELSE LET header == [format_version |-> data[5],
                        compression_mode |-> data[6],
                        width |-> ReadU32(data, 6),
                        height |-> ReadU32(data, 10),
                        color_depth |-> data[15],
                        metadata_size |-> ReadU32(data, 15)]
         IN  IF header.width = 0 \/ header.height = 0
             THEN [error |-> "invalid image dimensions", header |-> NoHeader]
             ELSE [error |-> "none", header |-> header]

\* std::string's operator<, the order of the std::map
RECURSIVE StrLess(_, _)
StrLess(a, b) ==
    IF b = <<>> THEN FALSE
    ELSE IF a = <<>> THEN TRUE
    ELSE IF a[1] # b[1] THEN a[1] < b[1]
    ELSE StrLess(Tail(a), Tail(b))

\* the keys of a std::map<std::string, ...> in iteration order
RECURSIVE SortedKeys(_)
SortedKeys(keys) ==
    IF keys = {} THEN <<>>
    ELSE LET m == CHOOSE k \in keys : \A o \in keys \ {k} : StrLess(k, o)
         IN  <<m>> \o SortedKeys(keys \ {m})

RECURSIVE EtcaMetadata_write_pairs(_, _)
EtcaMetadata_write_pairs(data, keys) ==
    IF keys = <<>> THEN <<>>
    ELSE Head(keys) \o <<EQUALS>> \o data[Head(keys)] \o <<NEWLINE>>
           \o EtcaMetadata_write_pairs(data, Tail(keys))

\* oss << pair.first << "=" << pair.second << "\n" for every pair
EtcaMetadata_serialize(data) ==
    EtcaMetadata_write_pairs(data, SortedKeys(DOMAIN data))

\* the lines std::getline returns: the text up to each newline, and what
\* follows the last newline when that is not empty
RECURSIVE GetLines(_)
GetLines(str) ==
    IF str = <<>> THEN <<>>
    ELSE LET ends == {k \in 1..Len(str) : str[k] = NEWLINE}
         IN  IF ends = {} THEN <<str>>
             ELSE <<SubSeq(str, 1, SetMin(ends) - 1)>>
                    \o GetLines(SubSeq(str, SetMin(ends) + 1, Len(str)))

\* a faulty loop body: the line is split at its last '='
EtcaMetadata_parse_line_last_equals(data, line) ==
    LET eq == {k \in 1..Len(line) : line[k] = EQUALS}
    IN  IF line = <<>> \/ eq = {} THEN data
        ELSE MapPut(data, SubSeq(line, 1, SetMax(eq) - 1),
                    SubSeq(line, SetMax(eq) + 1, Len(line)))

\* the body of the getline loop: an empty line and a line without '=' are
\* skipped, any other line is split at its first '=' and set
EtcaMetadata_parse_line(data, line) ==
    LET eq == {k \in 1..Len(line) : line[k] = EQUALS}
    IN  IF line = <<>> \/ eq = {} THEN data
        ELSE MapPut(data, SubSeq(line, 1, SetMin(eq) - 1),
                    SubSeq(line, SetMin(eq) + 1, Len(line)))

RECURSIVE EtcaMetadata_parse_lines(_, _)
EtcaMetadata_parse_lines(data, lines) ==
    IF lines = <<>> THEN data
    ELSE EtcaMetadata_parse_lines(EtcaMetadata_parse_line(data, Head(lines)),
                                  Tail(lines))

EtcaMetadata_deserialize(data) ==
    EtcaMetadata_parse_lines(<<>>, GetLines(data))

-----------------------------------------------------------------------------
(* Inputs of the process: images, configurations *)

WHITE == <<255, 255, 255>>
RED == <<255, 0, 0>>
Palette == {BLACK, WHITE}

Shapes == {wh \in (1..MaxSide) \X (1..MaxSide) : wh[1] * wh[2] <= MaxPixels}

\* three-colour images beside the enumerated ones: the 2x2 red/black
\* checkerboard, a red pixel, a row of three different colours
ScenarioImages ==
    {[width |-> 2, height |-> 2, pixels |-> <<RED, BLACK, BLACK, RED>>],
     [width |-> 1, height |-> 1, pixels |-> <<RED>>],
     [width |-> 3, height |-> 1, pixels |-> <<RED, WHITE, BLACK>>]}

Images ==
    ScenarioImages \cup
    UNION {{[width |-> wh[1], height |-> wh[2], pixels |-> px] :
               px \in [1..(wh[1] * wh[2]) -> Palette]} : wh \in Shapes}

\* CompressionConfig's defaults, the threshold in thousandths
DefaultVarianceThreshold == 50
DefaultMaxTreeDepth == 12

DefaultConfig ==
    [variance_threshold |-> DefaultVarianceThreshold,
     max_tree_depth |-> DefaultMaxTreeDepth, prefer_speed |-> FALSE]

\* thresholds of the documented range 0.0-1.0
Thresholds == {0, 450}

\* with a threshold >= 0 a 1x1 region is never split, so every depth above
\* the splits MaxPixels allows behaves as DefaultMaxTreeDepth does
Depths == (0..MaxDepth) \cup {DefaultMaxTreeDepth}

Configs ==
    [variance_threshold : Thresholds, max_tree_depth : Depths,
     prefer_speed : BOOLEAN]

\* build called directly also gets a negative threshold, under which every
\* region is split down to max_depth
NegativeThreshold == 0 - 1000
BuildThresholds == Thresholds \cup {NegativeThreshold}

NoImage == [width |-> 0, height |-> 0, pixels |-> <<>>]
NoTree == [image_width |-> 0, image_height |-> 0, root_id |-> 0,
           max_depth |-> 0, tiles |-> <<>>, id_to_address |-> <<>>]
NoCompressed == [width |-> 0, height |-> 0, data |-> <<>>]

-----------------------------------------------------------------------------
(* The codec harness: Init draws a byte vector, one action per codec call  *)

BoundedSeqs(S, n) == UNION {[1..k -> S] : k \in 0..n}

CodecAlphabet == {0, 1, 255}

\* the byte vectors the spec's own scenarios name, and two runs longer
\* than the 255 cap
RleScenario == [i \in 1..14 |-> IF i <= 10 THEN 170 ELSE IF i = 11 THEN 255 ELSE 187]
DeflateScenario == <<65, 66, 67, 65, 66, 67, 65, 66, 67>>
LongRun(v) == [i \in 1..260 |-> v]

CodecInputs ==
    BoundedSeqs(CodecAlphabet, MaxLen)
        \cup {RleScenario, DeflateScenario, LongRun(0), LongRun(255)}

\* the constructor arguments DeflateCodec is run with
WindowSizes == {1, 3, DefaultWindowSize}
MaxMatchLens == {3, 4, DefaultMaxMatchLen}

NoOp == [name |-> "none", window_size |-> 0, max_match_len |-> 0,
         prefer_speed |-> FALSE]

\* no image, tree or payload exists; the counter has its static initializer
ProcessStart ==
    /\ next_tile_id_ = 1
    /\ pc = "idle"
    /\ the_image = NoImage
    /\ the_config = DefaultConfig
    /\ the_tree = NoTree
    /\ tree_bytes = <<>>
    /\ compressed_image = NoCompressed
    /\ decoded_tree = NoTree
    /\ output_image = NoImage

CodecInit ==
    /\ cin \in CodecInputs
    /\ cop = NoOp
    /\ cenc = <<>>
    /\ cdec = <<>>
    /\ ProcessStart

RLEEncode ==
    /\ cop.name = "none"
    /\ cenc' = RLECodec_encode(cin)
    /\ cop' = [cop EXCEPT !.name = "RLECodec::encode"]
    /\ UNCHANGED <<cin, cdec, pvars>>

RLEDecode ==
    /\ cop.name = "RLECodec::encode"
    /\ cdec' = RLECodec_decode(cenc)
    /\ cop' = [cop EXCEPT !.name = "RLECodec::decode"]
    /\ UNCHANGED <<cin, cenc, pvars>>

DeflateEncode ==
    /\ cop.name = "none"
    /\ \E w \in WindowSizes, m \in MaxMatchLens :
          /\ cenc' = DeflateCodec_encode(cin, w, m)
          /\ cop' = [cop EXCEPT !.name = "DeflateCodec::encode",
                                !.window_size = w, !.max_match_len = m]
    /\ UNCHANGED <<cin, cdec, pvars>>

DeflateDecode ==
    /\ cop.name = "DeflateCodec::encode"
    /\ cdec' = DeflateCodec_decode(cenc)
    /\ cop' = [cop EXCEPT !.name = "DeflateCodec::decode"]
    /\ UNCHANGED <<cin, cenc, pvars>>

AdvancedEncode ==
    /\ cop.name = "none"
    /\ cenc' = AdvancedCodec_encode(cin)
    /\ cop' = [cop EXCEPT !.name = "AdvancedCodec::encode"]
    /\ UNCHANGED <<cin, cdec, pvars>>

AdvancedDecode ==
    /\ cop.name = "AdvancedCodec::encode"
    /\ cdec' = AdvancedCodec_decode(cenc)
    /\ cop' = [cop EXCEPT !.name = "AdvancedCodec::decode"]
    /\ UNCHANGED <<cin, cenc, pvars>>

AdaptiveEncode ==
    /\ cop.name = "none"
    /\ \E prefer_speed \in BOOLEAN, stale \in StaleChoices :
          /\ cenc' = AdaptiveEncoder_encode(cin, prefer_speed, stale)
          /\ cop' = [cop EXCEPT !.name = "AdaptiveEncoder::encode",
                                !.prefer_speed = prefer_speed]
    /\ UNCHANGED <<cin, cdec, pvars>>

AdaptiveDecode ==
    /\ cop.name = "AdaptiveEncoder::encode"
    /\ cdec' = AdaptiveEncoder_decode(cenc)
    /\ cop' = [cop EXCEPT !.name = "AdaptiveEncoder::decode"]
    /\ UNCHANGED <<cin, cenc, pvars>>

CodecNext ==
    \/ RLEEncode
    \/ RLEDecode
    \/ DeflateEncode
    \/ DeflateDecode
    \/ AdvancedEncode
    \/ AdvancedDecode
    \/ AdaptiveEncode
    \/ AdaptiveDecode

SpecCodec == CodecInit /\ [][CodecNext]_vars

-----------------------------------------------------------------------------
(* The process: one action per call.  A build or compress call starts from *)
(* "idle"; Release is the end of the scope that owns the tree, the payload *)
(* and the images (next_tile_id_ is static and outlives them).             *)

\* every tree build can return: the stale reads exist only when the root is
\* inflated while next_tile_id_ is the root's own id
SpectreTree_build_outcomes(next_tile_id, img, variance_threshold, max_depth) ==
    {SpectreTree_build(next_tile_id, img, variance_threshold, max_depth, stale) :
        stale \in IF /\ next_tile_id <= ROOT_ID
                     /\ ROOT_ID < next_tile_id + CHILDREN_PER_TILE
                     /\ max_depth > 0
                     /\ VarianceCalculator_should_subdivide(img, variance_threshold)
                  THEN StaleIdChoices
                  ELSE {[k \in 1..(CHILDREN_PER_TILE - 1) |-> ROOT_ID]}}

\* every payload apply_entropy_coding can leave in data
Compressor_apply_entropy_coding_outcomes(data, prefer_speed) ==
    IF data = <<>> THEN {data}
    ELSE LET results == AdaptiveEncoder_results(data, prefer_speed)
         IN  {AdaptiveEncoder_select(data, results, stale) :
                 stale \in StaleChoices}

ProcessInit ==
    /\ ProcessStart
    /\ cin = <<>>
    /\ cop = NoOp
    /\ cenc = <<>>
    /\ cdec = <<>>

\* SpectreTree tree(w, h); tree.build(image, threshold, max_depth)
Build ==
    /\ pc = "idle"
    /\ next_tile_id_ <= MaxNextTileId
    /\ \E img \in Images, t \in BuildThresholds, d \in 0..MaxDepth :
         \E b \in SpectreTree_build_outcomes(next_tile_id_, img, t, d) :
            /\ the_image' = img
            /\ the_config' = [variance_threshold |-> t, max_tree_depth |-> d,
                          prefer_speed |-> FALSE]
            /\ the_tree' = b.tree
            /\ next_tile_id_' = b.next_tile_id
    /\ pc' = "built"
    /\ UNCHANGED <<tree_bytes, compressed_image, decoded_tree, output_image, cvars>>

\* Compressor(config).compress(image)
Compress ==
    /\ pc = "idle"
    /\ next_tile_id_ <= MaxNextTileId
    /\ \E img \in Images, cfg \in Configs :
         \E b \in SpectreTree_build_outcomes(next_tile_id_, img,
                      cfg.variance_threshold, cfg.max_tree_depth) :
            LET data == Compressor_serialize_tree(b.tree, img)
            IN  \E coded \in Compressor_apply_entropy_coding_outcomes(
                                 data, cfg.prefer_speed) :
                   /\ the_image' = img
                   /\ the_config' = cfg
                   /\ the_tree' = b.tree
                   /\ next_tile_id_' = b.next_tile_id
                   /\ tree_bytes' = data
                   /\ compressed_image' = [width |-> img.width,
                                     height |-> img.height, data |-> coded]
    /\ pc' = "compressed"
    /\ UNCHANGED <<decoded_tree, output_image, cvars>>

\* Decompressor().decompress(compressed).  A write outside index_to_id is
\* undefined: the call may still return its image, or the process dies.  An
\* address walk that never ends keeps the call from returning.
Decompress ==
    /\ pc = "compressed"
    /\ LET d == Decompressor_deserialize_tree(compressed_image.data,
                    compressed_image.width, compressed_image.height)
       IN  IF ~d.returns
           THEN /\ pc' = "hung"
                /\ UNCHANGED <<decoded_tree, output_image>>
           ELSE /\ decoded_tree' = d.tree
                /\ \/ /\ pc' = "decompressed"
                      /\ output_image' = Decompressor_reconstruct_image(d.tree)
                   \/ /\ d.oob
                      /\ pc' = "crashed"
                      /\ output_image' = output_image
    /\ UNCHANGED <<next_tile_id_, the_image, the_config, the_tree, tree_bytes,
                   compressed_image, cvars>>

\* the tree, the payload and the images go out of scope
Release ==
    /\ pc \in {"built", "compressed", "decompressed"}
    /\ pc' = "idle"
    /\ the_image' = NoImage
    /\ the_config' = DefaultConfig
    /\ the_tree' = NoTree
    /\ tree_bytes' = <<>>
    /\ compressed_image' = NoCompressed
    /\ decoded_tree' = NoTree
    /\ output_image' = NoImage
    /\ UNCHANGED <<next_tile_id_, cvars>>

Next ==
    \/ Build
    \/ Compress
    \/ Decompress
    \/ Release

Init == ProcessInit

Spec == Init /\ [][Next]_vars

-----------------------------------------------------------------------------
(* EtcaWriter and EtcaReader.  A file is the sequence of its bytes.         *)

\* every CompressedImage Compressor(cfg).compress(img) can return, with the
\* value it leaves in next_tile_id_
Compressor_compress_outcomes(next_tile_id, img, cfg) ==
    UNION {{[compressed |-> [width |-> img.width, height |-> img.height,
                             data |-> coded],
             next_tile_id |-> b.next_tile_id] :
               coded \in Compressor_apply_entropy_coding_outcomes(
                             Compressor_serialize_tree(b.tree, img),
                             cfg.prefer_speed)} :
           b \in SpectreTree_build_outcomes(next_tile_id, img,
                     cfg.variance_threshold, cfg.max_tree_depth)}

\* the configuration EtcaWriter::write compresses with: variance_threshold
\* comes on the scale 0-255 and is divided by 255 (kept in thousandths,
\* rounded down)
EtcaWriter_write_config(lossless, variance_threshold, max_depth) ==
    [variance_threshold |-> (variance_threshold * 1000) \div 255,
     max_tree_depth |-> IF max_depth > 0 THEN max_depth
                        ELSE IF lossless THEN 32
                        ELSE DefaultMaxTreeDepth,
     prefer_speed |-> FALSE]

\* the configuration EtcaWriter::write_from_file compresses with
EtcaWriter_write_from_file_config(lossless, variance_threshold) ==
    IF lossless
    THEN [variance_threshold |-> 1, max_tree_depth |-> 24,
          prefer_speed |-> FALSE]
    ELSE [variance_threshold |-> (variance_threshold * 1000) \div 255,
          max_tree_depth |-> 12, prefer_speed |-> FALSE]

\* the header both writers fill in
EtcaWriter_header(image, lossless, metadata_size) ==
    [format_version |-> VERSION,
     compression_mode |-> IF lossless THEN LOSSLESS ELSE LOSSY,
     width |-> image.width, height |-> image.height,
     color_depth |-> COLOR_DEPTH_RGB24, metadata_size |-> metadata_size]

\* the bytes EtcaWriter::write puts in the file: header, payload
EtcaWriter_write(image, lossless, compressed) ==
    EtcaHeader_serialize(EtcaWriter_header(image, lossless, 0))
      \o compressed.data

\* the bytes EtcaWriter::write_from_file puts in the file: header, metadata,
\* payload
EtcaWriter_write_from_file(image, lossless, metadata, compressed) ==
    LET metadata_bytes == EtcaMetadata_serialize(metadata)
    IN  EtcaHeader_serialize(
            EtcaWriter_header(image, lossless, Len(metadata_bytes)))
          \o metadata_bytes \o compressed.data

\* how a read call ends: it returns an image, throws error, or (after a
\* write outside index_to_id, an address walk that never ends) the process
\* dies or the call never returns
ReadThrew(error) == [outcome |-> "threw", error |-> error, image |-> NoImage]

\* every way EtcaReader::read can end on a file
EtcaReader_read_outcomes(file) ==
    IF Len(file) < HEADER_SIZE
    THEN {ReadThrew("Failed to read .etca header")}
    ELSE LET parsed == EtcaHeader_deserialize(SubSeq(file, 1, HEADER_SIZE))
             header == parsed.header
             compressed_data == SubSeq(file,
                                       HEADER_SIZE + header.metadata_size + 1,
                                       Len(file))
             d == Decompressor_deserialize_tree(compressed_data,
                                                header.width, header.height)
         IN  IF parsed.error # "none" THEN {ReadThrew(parsed.error)}
             ELSE IF ~d.returns
             THEN {[outcome |-> "hung", error |-> "none", image |-> NoImage]}
             ELSE {[outcome |-> "returned", error |-> "none",
                    image |-> Decompressor_reconstruct_image(d.tree)]}
                  \cup IF d.oob
                       THEN {[outcome |-> "crashed", error |-> "none",
                              image |-> NoImage]}
                       ELSE {}

-----------------------------------------------------------------------------
(* The container harness (specification SpecContainer): one action per     *)
(* call.  cin is the object handed to a serializer or writer, cenc the      *)
(* bytes (of a header, a metadata blob, a file), cdec what the              *)
(* deserializer or reader made of them.  A file passes through storage      *)
(* between write and read: it can come back cut short, with other           *)
(* dimensions declared or with its first bytes overwritten, and a reader is *)
(* also handed bytes no writer of this program produced.                    *)

\* longest enumerated metadata key and value, most pairs in an enumerated map
MaxMetaLen == 1
MaxEntries == 2

MetaChars == {EQUALS, NEWLINE, 107}
MetaStrings == BoundedSeqs(MetaChars, MaxMetaLen)

\* "author" -> "me=you" with "" -> "", and "a" -> "", "ab" -> "=" with
\* "b" -> "x==y"
ScenarioMetadata ==
    {(<<97, 117, 116, 104, 111, 114>> :> <<109, 101, 61, 121, 111, 117>>)
        @@ (<<>> :> <<>>),
     (<<97>> :> <<>>) @@ (<<97, 98>> :> <<EQUALS>>)
        @@ (<<98>> :> <<120, EQUALS, EQUALS, 121>>)}

MetadataMaps ==
    ScenarioMetadata \cup
    UNION {[keys -> MetaStrings] :
              keys \in {k \in SUBSET MetaStrings : Cardinality(k) <= MaxEntries}}

\* header fields: versions around VERSION, sizes that fill one to four bytes
Headers ==
    [format_version : {0, VERSION, 2},
     compression_mode : {LOSSY, LOSSLESS},
     width : {0, 1, 640, 16909060},
     height : {0, 1, 480, 2130706433},
     color_depth : {COLOR_DEPTH_RGB24, 32},
     metadata_size : {0, 258, 16909060}]

\* the images written to files
ContainerImages ==
    ScenarioImages \cup
    {[width |-> 1, height |-> 1, pixels |-> <<BLACK>>],
     [width |-> 2, height |-> 1, pixels |-> <<BLACK, WHITE>>]}

\* variance_threshold arguments of the writers (10.0 is the default)
WriteThresholds == {0, 10}

\* max_depth arguments of write (0 is the default)
WriteDepths == {0, 1}

\* bytes handed to a reader that no writer produced: a header's 20 bytes
\* with the magic kept or replaced, followed by nothing or two more bytes,
\* cut to 4, 19, 20 or 22 bytes
ForeignMagics == {MAGIC, <<255, 255, 255, 255>>, <<69, 84, 67, 66>>,
                  <<0, 84, 67, 65>>}

ForeignBytes ==
    {<<>>} \cup
    UNION {UNION {{SubSeq(magic \o SubSeq(EtcaHeader_serialize(header), 5,
                                           HEADER_SIZE) \o <<0, 0>>, 1, k) :
                      k \in {4, 19, 20, 22}} :
                  magic \in ForeignMagics} :
           header \in [format_version : {VERSION, 2},
                       compression_mode : {LOSSY},
                       width : {0, 1}, height : {1},
                       color_depth : {COLOR_DEPTH_RGB24},
                       metadata_size : {0}]}

NoContainerOp == [name |-> "none", damage |-> "none"]

ContainerInit ==
    /\ cin = <<>>
    /\ cop = NoContainerOp
    /\ cenc = <<>>
    /\ cdec = <<>>
    /\ ProcessStart

Called(name) == [cop EXCEPT !.name = name]

\* metadata.serialize() on a map filled by EtcaMetadata::set
MetadataSerialize ==
    /\ cop.name = "none"
    /\ \E metadata \in MetadataMaps :
          /\ cin' = metadata
          /\ cenc' = EtcaMetadata_serialize(metadata)
    /\ cop' = Called("EtcaMetadata::serialize")
    /\ UNCHANGED <<cdec, pvars>>

MetadataDeserialize ==
    /\ cop.name = "EtcaMetadata::serialize"
    /\ cdec' = EtcaMetadata_deserialize(cenc)
    /\ cop' = Called("EtcaMetadata::deserialize")
    /\ UNCHANGED <<cin, cenc, pvars>>

HeaderSerialize ==
    /\ cop.name = "none"
    /\ \E header \in Headers :
          /\ cin' = header
          /\ cenc' = EtcaHeader_serialize(header)
    /\ cop' = Called("EtcaHeader::serialize")
    /\ UNCHANGED <<cdec, pvars>>

\* EtcaHeader::deserialize on serialized or on received bytes
HeaderDeserialize ==
    /\ cop.name \in {"EtcaHeader::serialize", "received"}
    /\ cdec' = EtcaHeader_deserialize(cenc)
    /\ cop' = Called("EtcaHeader::deserialize")
    /\ UNCHANGED <<cin, cenc, pvars>>

\* EtcaWriter::write(image, path, lossless, variance_threshold, max_depth)
Write ==
    /\ cop.name = "none"
    /\ next_tile_id_ <= MaxNextTileId
    /\ \E image \in ContainerImages, lossless \in BOOLEAN,
          variance_threshold \in WriteThresholds, max_depth \in WriteDepths :
         \E c \in Compressor_compress_outcomes(next_tile_id_, image,
                      EtcaWriter_write_config(lossless, variance_threshold,
                                              max_depth)) :
            /\ cin' = image
            /\ cenc' = EtcaWriter_write(image, lossless, c.compressed)
            /\ next_tile_id_' = c.next_tile_id
    /\ cop' = Called("EtcaWriter::write")
    /\ UNCHANGED <<cdec, pc, the_image, the_config, the_tree, tree_bytes,
                   compressed_image, decoded_tree, output_image>>

\* EtcaWriter::write_from_file(input, path, lossless, variance_threshold,
\* metadata), the image being what load_image made of the input file
WriteFromFile ==
    /\ cop.name = "none"
    /\ next_tile_id_ <= MaxNextTileId
    /\ \E image \in ContainerImages, lossless \in BOOLEAN,
          variance_threshold \in WriteThresholds,
          metadata \in ScenarioMetadata \cup {<<>>} :
         \E c \in Compressor_compress_outcomes(next_tile_id_, image,
                      EtcaWriter_write_from_file_config(lossless,
                                                        variance_threshold)) :
            /\ cin' = image
            /\ cenc' = EtcaWriter_write_from_file(image, lossless, metadata,
                                                  c.compressed)
            /\ next_tile_id_' = c.next_tile_id
    /\ cop' = Called("EtcaWriter::write_from_file")
    /\ UNCHANGED <<cdec, pc, the_image, the_config, the_tree, tree_bytes,
                   compressed_image, decoded_tree, output_image>>

Written == cop.name \in {"EtcaWriter::write", "EtcaWriter::write_from_file"}

\* the file loses its end
Truncate ==
    /\ Written
    /\ \E k \in 0..(Len(cenc) - 1) : cenc' = SubSeq(cenc, 1, k)
    /\ cop' = [name |-> "stored", damage |-> "truncated"]
    /\ UNCHANGED <<cin, cdec, pvars>>

\* the container header declares a width or a height one larger
Redeclare ==
    /\ Written
    /\ \/ cenc' = SubSeq(cenc, 1, 6) \o U32BE(ReadU32(cenc, 6) + 1)
                     \o SubSeq(cenc, 11, Len(cenc))
       \/ cenc' = SubSeq(cenc, 1, 10) \o U32BE(ReadU32(cenc, 10) + 1)
                     \o SubSeq(cenc, 15, Len(cenc))
    /\ cop' = [name |-> "stored", damage |-> "dimensions"]
    /\ UNCHANGED <<cin, cdec, pvars>>

\* the first four bytes are overwritten
Overwrite ==
    /\ Written
    /\ \E magic \in ForeignMagics \ {MAGIC} :
          cenc' = magic \o SubSeq(cenc, 5, Len(cenc))
    /\ cop' = [name |-> "stored", damage |-> "magic"]
    /\ UNCHANGED <<cin, cdec, pvars>>

\* bytes from elsewhere
Receive ==
    /\ cop.name = "none"
    /\ \E bytes \in ForeignBytes : cenc' = bytes
    /\ cop' = [name |-> "received", damage |-> "foreign"]
    /\ UNCHANGED <<cin, cdec, pvars>>

\* EtcaReader::read(path)
Read ==
    /\ Written \/ cop.name \in {"stored", "received"}
    /\ cdec' \in EtcaReader_read_outcomes(cenc)
    /\ cop' = Called("EtcaReader::read")
    /\ UNCHANGED <<cin, cenc, pvars>>

\* the objects of a finished call go out of scope; next_tile_id_ stays
Forget ==
    /\ cop.name \in {"EtcaMetadata::deserialize", "EtcaHeader::deserialize",
                     "EtcaReader::read"}
    /\ cin' = <<>>
    /\ cop' = NoContainerOp
    /\ cenc' = <<>>
    /\ cdec' = <<>>
    /\ UNCHANGED pvars

ContainerNext ==
    \/ MetadataSerialize
    \/ MetadataDeserialize
    \/ HeaderSerialize
    \/ HeaderDeserialize
    \/ Write
    \/ WriteFromFile
    \/ Truncate
    \/ Redeclare
    \/ Overwrite
    \/ Receive
    \/ Read
    \/ Forget

SpecContainer == ContainerInit /\ [][ContainerNext]_vars

-----------------------------------------------------------------------------
(* The decoder harness (specification SpecDecoder): a Decompressor is      *)
(* handed the payloads Compressor::compress produces and payloads from     *)
(* elsewhere, record streams no compressor wrote among them.               *)

\* every way decompress(compressed, false, max_depth) can end.  The
\* parameter max_depth is unnamed in the definition and never read.  A write
\* outside index_to_id is undefined: the call may still return an image, or
\* the process dies.  An address walk in a cycle never leaves its loop.
Decompressor_decompress_outcomes(compressed, max_depth) ==
    LET end(d, outcome, tree, image) ==
            [outcome |-> outcome, tree |-> tree, image |-> image,
             oob |-> d.oob, branch |-> d.branch,
             decoded_data |-> d.decoded_data]
        outcomes(d) ==
            IF ~d.returns THEN {end(d, "hung", NoTree, NoImage)}
            ELSE {end(d, "decompressed", d.tree, image) :
                     image \in Decompressor_reconstruct_image_outcomes(d.tree)}
                 \cup IF d.oob THEN {end(d, "crashed", d.tree, NoImage)} ELSE {}
    IN  outcomes(Decompressor_deserialize_tree(compressed.data, compressed.width,
                                               compressed.height))

\* max_depth arguments of decompress (-1 is the default)
LodDepths == {0 - 1, 0, 1}

\* most records in an enumerated stream
MaxRecords == 2

RECURSIVE Flatten(_)
Flatten(seqs) ==
    IF seqs = <<>> THEN <<>> ELSE Head(seqs) \o Flatten(Tail(seqs))

\* records in the layout of Compressor::serialize_tree, fields free: a tile
\* index inside or outside the declared count, children that name the tile
\* itself, an earlier tile or a later one
ForeignRecords ==
    {U16BE(tile_index) \o <<IF tile_index = 0 THEN 0 ELSE 1>>
        \o U16BE(IF tile_index = 0 THEN NO_INDEX ELSE 0)
        \o (CASE tile_index = 0 -> WHITE [] tile_index = 1 -> RED [] OTHER -> BLACK)
        \o <<Len(children)>>
        \o Flatten([k \in 1..Len(children) |-> U16BE(children[k])]) :
        tile_index \in 0..2,
        children \in {<<>>, <<0>>, <<1>>, <<1, 2>>}}

\* the unencoded payload of a 2x1 image: marker, header declaring
\* tile_count tiles, records
ForeignStream(tile_count, records) ==
    [width |-> 2, height |-> 1,
     data |-> <<CODEC_NONE>> \o U32BE(2) \o U32BE(1) \o U32BE(tile_count)
                \o U16BE(1) \o Flatten(records)]

\* the serialized tree of one white tile, for an image width x height
OneTileTree(width, height) ==
    U32BE(width) \o U32BE(height) \o U32BE(1) \o U16BE(0)
      \o U16BE(0) \o <<0>> \o U16BE(NO_INDEX) \o WHITE \o <<0>>

\* a width whose first byte is no codec marker
WideWidth == 4 * 16777216

\* payloads for each value of byte 0 (the one-tile tree under each codec
\* and behind the NONE marker, a tree that begins with the byte 4, payloads
\* of one byte), and the streams of up to MaxRecords records
ForeignPayloads ==
    {[width |-> 1, height |-> 1, data |-> data] :
        data \in {RLECodec_encode(OneTileTree(1, 1)),
                  DeflateCodec_encode(OneTileTree(1, 1), DefaultWindowSize,
                                      DefaultMaxMatchLen),
                  AdvancedCodec_encode(OneTileTree(1, 1)),
                  <<CODEC_NONE>> \o OneTileTree(1, 1),
                  <<>>, <<CODEC_NONE>>, <<CODEC_RLE>>, <<4>>, <<255>>}}
    \cup {[width |-> WideWidth, height |-> 0,
           data |-> OneTileTree(WideWidth, 0)]}
    \cup {ForeignStream(tile_count, records) :
             tile_count \in 1..3,
             records \in BoundedSeqs(ForeignRecords, MaxRecords)}

\* Compressor(config).compress(image): the tree is a local of compress, the
\* caller keeps the image and the CompressedImage
Produce ==
    /\ pc = "idle"
    /\ next_tile_id_ <= MaxNextTileId
    /\ \E image \in ContainerImages, config \in Configs :
         \E c \in Compressor_compress_outcomes(next_tile_id_, image, config) :
            /\ the_image' = image
            /\ the_config' = config
            /\ compressed_image' = c.compressed
            /\ next_tile_id_' = c.next_tile_id
    /\ pc' = "compressed"
    /\ UNCHANGED <<the_tree, tree_bytes, decoded_tree, output_image, cvars>>

\* a CompressedImage that did not come from this process's compressor
ReceivePayload ==
    /\ pc = "idle"
    /\ compressed_image' \in ForeignPayloads
    /\ pc' = "compressed"
    /\ UNCHANGED <<next_tile_id_, the_image, the_config, the_tree, tree_bytes,
                   decoded_tree, output_image, cvars>>

\* Decompressor::decompress(compressed, false, max_depth).  cop keeps the
\* call, the branch deserialize_tree took on byte 0 and whether it wrote
\* outside index_to_id; cdec keeps its decoded_data.
DecompressWith ==
    /\ pc = "compressed"
    /\ \E max_depth \in LodDepths :
         \E r \in Decompressor_decompress_outcomes(compressed_image, max_depth) :
            /\ pc' = r.outcome
            /\ decoded_tree' = r.tree
            /\ output_image' = r.image
            /\ cdec' = r.decoded_data
            /\ cop' = [name |-> "Decompressor::decompress",
                       max_depth |-> max_depth, branch |-> r.branch,
                       oob |-> r.oob]
    /\ UNCHANGED <<next_tile_id_, the_image, the_config, the_tree, tree_bytes,
                   compressed_image, cin, cenc>>

\* the payload, the trees and the images go out of scope
Discard ==
    /\ pc \in {"compressed", "decompressed"}
    /\ pc' = "idle"
    /\ the_image' = NoImage
    /\ the_config' = DefaultConfig
    /\ the_tree' = NoTree
    /\ tree_bytes' = <<>>
    /\ compressed_image' = NoCompressed
    /\ decoded_tree' = NoTree
    /\ output_image' = NoImage
    /\ cop' = NoOp
    /\ cdec' = <<>>
    /\ UNCHANGED <<next_tile_id_, cin, cenc>>

DecoderNext ==
    \/ Produce
    \/ ReceivePayload
    \/ DecompressWith
    \/ Discard

SpecDecoder == ProcessInit /\ [][DecoderNext]_vars

-----------------------------------------------------------------------------
(* The index harness (specification SpecIndex): the first pass of         *)
(* serialize_tree over trees of up to 65537 tiles.  The index a tile gets  *)
(* depends on its position in the enumeration alone, so a tree is          *)
(* represented by its tile count (cin) and the call by the indices of two  *)
(* of its positions (cenc).                                                *)

\* most tiles of a tree whose positions are all enumerated
MaxTiles == 8

\* the tile counts: the small ones, and those around the 16-bit limit
TileCounts == (1..MaxTiles) \cup {65535, 65536, 65537}

\* the positions looked at in a tree of tile_count tiles
Positions(tile_count) ==
    IF tile_count <= MaxTiles THEN 0..(tile_count - 1)
    ELSE {0, 1, 65534, 65535, 65536} \cap (0..(tile_count - 1))

\* serialize_tree on a tree of tile_count tiles: the tile_index fields of
\* the records at two positions
SerializeIndices ==
    /\ cop.name = "none"
    /\ \E tile_count \in TileCounts :
         \E i \in Positions(tile_count), j \in Positions(tile_count) :
            /\ cin' = tile_count
            /\ cenc' = <<[position |-> i, tile_index |-> Compressor_tile_index(i)],
                         [position |-> j, tile_index |-> Compressor_tile_index(j)]>>
    /\ cop' = Called("Compressor::serialize_tree")
    /\ UNCHANGED <<cdec, pvars>>

\* the tree and the bytes go out of scope
DropTree ==
    /\ cop.name = "Compressor::serialize_tree"
    /\ cin' = <<>>
    /\ cop' = NoContainerOp
    /\ cenc' = <<>>
    /\ UNCHANGED <<cdec, pvars>>

IndexNext ==
    \/ SerializeIndices
    \/ DropTree

\* the harness starts as the container harness does: nothing called yet
SpecIndex == ContainerInit /\ [][IndexNext]_vars

-----------------------------------------------------------------------------
(* Claims about the entropy codecs (specification SpecCodec) *)

\* C3: RLE round trip.  Whenever RLECodec::decode has run on the output of
\* RLECodec::encode, the decoded vector equals the vector that was encoded.
C3_RLERoundTrip ==
    cop.name = "RLECodec::decode" => cdec = cin

\* C4: adaptive round trip.  Whenever AdaptiveEncoder::decode has run on the
\* output of AdaptiveEncoder::encode (either value of prefer_speed, whichever
\* codec was picked), the decoded vector equals the vector that was encoded.
C4_AdaptiveRoundTrip ==
    cop.name = "AdaptiveEncoder::decode" => cdec = cin

\* C5: DEFLATE round trip.  Whenever DeflateCodec::decode has run on the
\* output of DeflateCodec::encode, for the default and for smaller window
\* and match-length parameters, the decoded vector equals the vector that
\* was encoded.
C5_DeflateRoundTrip ==
    cop.name = "DeflateCodec::decode" => cdec = cin

\* a vector with 0xFF and a repeated pattern was encoded with a match token
\* and decoded
C5_Witness ==
    /\ cop.name = "DeflateCodec::decode"
    /\ cop.window_size = DefaultWindowSize
    /\ cop.max_match_len = DefaultMaxMatchLen
    /\ cin = <<0, 1, 255, 0, 1, 255>>
    /\ cenc = <<CODEC_DEFLATE, 0, 1, 255, 255, 255, 0, 3, 0, 3>>
    /\ cdec = cin

\* the delta step is inverted for every pair of adjacent byte values
DeltaInvertedOnAllPairs ==
    \A a \in Byte, b \in Byte :
        /\ AdvancedCodec_delta_encode(<<a, b>>) = <<a, (b - a + 256) % 256>>
        /\ AdvancedCodec_delta_decode(AdvancedCodec_delta_encode(<<a, b>>)) = <<a, b>>

\* C6: ADVANCED round trip.  The output of AdvancedCodec::encode starts with
\* 0x03 and continues with DEFLATE's output for the delta-encoded input
\* without DEFLATE's tag; whenever AdvancedCodec::decode has run on it, the
\* decoded vector equals the vector that was encoded; and delta_decode
\* inverts delta_encode on every pair of adjacent byte values (evaluated
\* once, in the states that decoded the spec's RLE scenario vector).
C6_AdvancedRoundTrip ==
    /\ cop.name \in {"AdvancedCodec::encode", "AdvancedCodec::decode"} =>
          /\ cenc[1] = CODEC_ADVANCED
          /\ cin # <<>> =>
                <<CODEC_DEFLATE>> \o Tail(cenc) =
                    DeflateCodec_encode(AdvancedCodec_delta_encode(cin),
                                        DefaultWindowSize, DefaultMaxMatchLen)
    /\ cop.name = "AdvancedCodec::decode" => cdec = cin
    /\ (cop.name = "AdvancedCodec::decode" /\ cin = RleScenario) =>
          DeltaInvertedOnAllPairs

\* a vector whose deltas wrap around (1 - 255, 0 - 1) and repeat was encoded
\* and decoded
C6_Witness ==
    /\ cop.name = "AdvancedCodec::decode"
    /\ cin = <<255, 0, 255, 0, 255, 0>>
    /\ AdvancedCodec_delta_encode(cin) = <<255, 1, 255, 1, 255, 1>>
    /\ cenc[1] = CODEC_ADVANCED
    /\ cdec = cin

-----------------------------------------------------------------------------
(* Claims about the process (specification Spec) *)

\* the_tree is the result of a build (directly or inside compress)
Built == pc # "idle"

\* the tiles without children
LeavesOf(t) == {id \in DOMAIN t.tiles : t.tiles[id].children = <<>>}

\* a tile's rectangle <<x, y, width, height>>, from its address
BoundsOf(t, id) ==
    Decompressor_calculate_tile_bounds(t, id, t.image_width, t.image_height)

Inside(x, y, b) ==
    x >= b[1] /\ x < b[1] + b[3] /\ y >= b[2] /\ y < b[2] + b[4]

\* every leaf's rectangle holds one colour of img
SingleColorLeaves(t, img) ==
    \A id \in LeavesOf(t) :
        \A x1 \in 0..(img.width - 1), x2 \in 0..(img.width - 1),
           y1 \in 0..(img.height - 1), y2 \in 0..(img.height - 1) :
            (Inside(x1, y1, BoundsOf(t, id)) /\ Inside(x2, y2, BoundsOf(t, id)))
                => ColorData_get_pixel(img, x1, y1) = ColorData_get_pixel(img, x2, y2)

Uniform(img) == \A k \in 1..Len(img.pixels) : img.pixels[k] = img.pixels[1]

\* C1: end-to-end exactness.  When compress built a tree whose leaves each
\* hold a single colour of the image and decompress has returned, the
\* returned image equals the image that was compressed, whatever number of
\* trees the process built before.
C1_EndToEndExact ==
    (pc = "decompressed" /\ SingleColorLeaves(the_tree, the_image))
        => output_image = the_image

\* C2: a one-colour image (threshold >= 0, any max_depth) compresses to a
\* tree of one tile and 23 serialized bytes, and decompress returns the
\* image.
C2_UniformImage ==
    (pc \in {"compressed", "decompressed"} /\ Uniform(the_image)) =>
        /\ DOMAIN the_tree.tiles = {ROOT_ID}
        /\ Len(tree_bytes) = 23
        /\ pc = "decompressed" => output_image = the_image

RECURSIVE ChildrenListed(_, _)
ChildrenListed(t, ids) ==
    IF ids = <<>> THEN 0
    ELSE Len(t.tiles[Head(ids)].children) + ChildrenListed(t, Tail(ids))

\* C7: tile ids are unique within a build.  In every built tree the tile
\* with id 1 is the root (depth 0, no parent), every id inflate_tile handed
\* out is >= 2, and no insertion replaced a tile: the table holds the root
\* and one tile for each child id listed.
C7_TileIdsUnique ==
    Built =>
        /\ ROOT_ID \in DOMAIN the_tree.tiles
        /\ the_tree.tiles[ROOT_ID].depth = 0
        /\ the_tree.tiles[ROOT_ID].parent_id = 0
        /\ \A id \in DOMAIN the_tree.tiles :
              \A k \in 1..Len(the_tree.tiles[id].children) :
                  the_tree.tiles[id].children[k] >= 2
        /\ Cardinality(DOMAIN the_tree.tiles) =
              1 + ChildrenListed(the_tree, SpectreTree_get_all_tiles(the_tree))

\* C8: tree structure.  In every built tree the root has depth 0 and
\* parent_id 0; every other tile's parent_id names a tile of the tree that
\* is one level up and lists the tile exactly once among its children; a
\* tile has 0 or 4 children.
C8_TreeStructure ==
    Built =>
        LET tiles == the_tree.tiles
        IN  /\ the_tree.root_id \in DOMAIN tiles
            /\ tiles[the_tree.root_id].depth = 0
            /\ tiles[the_tree.root_id].parent_id = 0
            /\ \A id \in DOMAIN tiles \ {the_tree.root_id} :
                  /\ tiles[id].parent_id \in DOMAIN tiles
                  /\ tiles[id].depth = tiles[tiles[id].parent_id].depth + 1
                  /\ Cardinality({k \in 1..Len(tiles[tiles[id].parent_id].children) :
                        tiles[tiles[id].parent_id].children[k] = id}) = 1
            /\ \A id \in DOMAIN tiles :
                  Len(tiles[id].children) \in {0, CHILDREN_PER_TILE}

\* C9: coverage.  In every built tree (any threshold, any max_depth, odd
\* sizes and sizes 1 included) every pixel of the image lies in the
\* rectangle of exactly one leaf.
C9_LeafCoverage ==
    Built =>
        \A x \in 0..(the_image.width - 1), y \in 0..(the_image.height - 1) :
            Cardinality({id \in LeavesOf(the_tree) :
                            Inside(x, y, BoundsOf(the_tree, id))}) = 1

\* a 3x1 image of three colours was split twice: the root into a 2x1 and a
\* 1x1 region (and two empty ones), the 2x1 region into its two pixels
C9_Witness ==
    /\ pc = "built"
    /\ the_image = [width |-> 3, height |-> 1, pixels |-> <<RED, WHITE, BLACK>>]
    /\ the_tree.max_depth = 2
    /\ Cardinality(LeavesOf(the_tree)) = 7
    /\ \E id \in LeavesOf(the_tree) : BoundsOf(the_tree, id) = <<1, 0, 1, 1>>
    /\ \E id \in LeavesOf(the_tree) : BoundsOf(the_tree, id) = <<2, 0, 1, 1>>

\* every address of t is as long as its tile is deep; the root's is empty
AddressDepth(t) ==
    /\ \A id \in DOMAIN t.tiles :
          Len(SpectreTree_get_address(t, id)) = t.tiles[id].depth
    /\ SpectreTree_get_address(t, t.root_id) = <<>>

\* C10: address depth.  In every built tree, and in every tree
\* deserialize_tree returned for a payload compress produced, each tile's
\* address has as many segments as the tile's depth and the root's address
\* is empty.
C10_AddressDepth ==
    /\ Built => AddressDepth(the_tree)
    /\ pc = "decompressed" => AddressDepth(decoded_tree)

\* the pixels of img inside a tile's rectangle
RegionOf(t, img, id) ==
    LET b == BoundsOf(t, id)
    IN  ColorData_extract_region(img, b[1], b[2], b[3], b[4])

\* C11: variance-respecting.  In every built tree no tile is deeper than
\* max_depth; every tile with children is above max_depth and
\* should_subdivide holds for its region under the build's threshold; every
\* leaf is at max_depth or should_subdivide fails for its region.
C11_VarianceRespecting ==
    Built =>
        \A id \in DOMAIN the_tree.tiles :
            LET tile == the_tree.tiles[id]
                split == VarianceCalculator_should_subdivide(
                             RegionOf(the_tree, the_image, id),
                             the_config.variance_threshold)
            IN  /\ tile.depth <= the_config.max_tree_depth
                /\ tile.children # <<>> =>
                      (tile.depth < the_config.max_tree_depth /\ split)
                /\ tile.children = <<>> =>
                      (tile.depth = the_config.max_tree_depth \/ ~split)

\* a build with threshold 0 and max_depth 2 split the root and its 2x1
\* child, left the 1x1 child a leaf above max_depth, and stopped the 2x1
\* child's children at max_depth
C11_Witness ==
    /\ pc = "built"
    /\ the_image = [width |-> 3, height |-> 1, pixels |-> <<RED, WHITE, BLACK>>]
    /\ the_config.variance_threshold = 0
    /\ the_config.max_tree_depth = 2
    /\ \E id \in DOMAIN the_tree.tiles :
          /\ the_tree.tiles[id].depth = 1
          /\ the_tree.tiles[id].children # <<>>
    /\ \E id \in LeavesOf(the_tree) :
          /\ the_tree.tiles[id].depth = 1
          /\ RegionOf(the_tree, the_image, id).pixels = <<BLACK>>
    /\ \E id \in LeavesOf(the_tree) : the_tree.tiles[id].depth = 2

\* the indices of img's pixels that lie in rectangle b
PixelsInside(img, b) ==
    {k \in 1..Len(img.pixels) :
        Inside((k - 1) % img.width, (k - 1) \div img.width, b)}

\* floor(sum of channel c over the pixels of img in b / their number)
MeanInside(img, b, c) ==
    LET n == Len(img.pixels)
        sum == SeqSum([k \in 1..n |-> IF k \in PixelsInside(img, b)
                                      THEN img.pixels[k][c] ELSE 0], n)
    IN  sum \div Cardinality(PixelsInside(img, b))

\* C12: tile colours.  In every built tree each channel of each tile's
\* colour is the floor of the mean of that channel over the image's pixels
\* in the tile's rectangle (the rectangle its address gives); a tile whose
\* rectangle holds no pixel is black.
C12_TileColorIsMean ==
    Built =>
        \A id \in DOMAIN the_tree.tiles :
            LET b == BoundsOf(the_tree, id)
            IN  IF PixelsInside(the_image, b) = {}
                THEN the_tree.tiles[id].color = BLACK
                ELSE \A c \in 1..3 :
                        the_tree.tiles[id].color[c] = MeanInside(the_image, b, c)

\* a build of the 3x1 red, white, black row split twice: the root's colour
\* is the rounded-down mean of three pixels, the 2x1 child's the mean of the
\* red and the white one, and the tile at x = 1 holds the white pixel
C12_Witness ==
    /\ pc = "built"
    /\ the_image = [width |-> 3, height |-> 1, pixels |-> <<RED, WHITE, BLACK>>]
    /\ the_tree.max_depth = 2
    /\ \E id \in DOMAIN the_tree.tiles :
          /\ BoundsOf(the_tree, id) = <<0, 0, 3, 1>>
          /\ the_tree.tiles[id].color = <<170, 85, 85>>
    /\ \E id \in DOMAIN the_tree.tiles :
          /\ BoundsOf(the_tree, id) = <<0, 0, 2, 1>>
          /\ the_tree.tiles[id].color = <<255, 127, 127>>
    /\ \E id \in LeavesOf(the_tree) :
          /\ BoundsOf(the_tree, id) = <<1, 0, 1, 1>>
          /\ the_tree.tiles[id].color = WHITE

\* the tiles of t below and including id in depth-first pre-order: the tile,
\* then the subtree of each child in the order of its children list
RECURSIVE PreOrder(_, _)
RECURSIVE PreOrderOfEach(_, _, _)
PreOrder(t, id) ==
    IF id \notin DOMAIN t.tiles THEN <<>>
    ELSE <<id>> \o PreOrderOfEach(t, t.tiles[id].children, 1)

PreOrderOfEach(t, children, k) ==
    IF k > Len(children) THEN <<>>
    ELSE PreOrder(t, children[k]) \o PreOrderOfEach(t, children, k + 1)

\* serialize_tree's output when the records are written in the order ids
SerializedInOrder(t, img, ids) ==
    U32BE(img.width) \o U32BE(img.height)
      \o U32BE(Cardinality(DOMAIN t.tiles))
      \o U16BE(t.max_depth % 65536)
      \o Compressor_tile_records(t, ids, Compressor_id_to_index(ids), 1)

\* C13: serialization order.  The records serialize_tree wrote for the tree
\* compress built are those of the depth-first pre-order from the tile with
\* id 1: the root first, each tile followed by the whole subtree of its
\* child 0, then of its children 1, 2 and 3.
C13_SerializationPreOrder ==
    pc \in {"compressed", "decompressed"} =>
        tree_bytes = SerializedInOrder(the_tree, the_image,
                                       PreOrder(the_tree, ROOT_ID))

\* every payload a compress call on img and cfg can return when it starts
\* with the counter at next_tile_id
CompressPayloads(next_tile_id, img, cfg) ==
    UNION {Compressor_apply_entropy_coding_outcomes(
               Compressor_serialize_tree(b.tree, img), cfg.prefer_speed) :
           b \in SpectreTree_build_outcomes(next_tile_id, img,
                     cfg.variance_threshold, cfg.max_tree_depth)}

\* C14: encoding is a function of the image and the configuration.  The
\* payload a compress call returned is the only payload a compress call on
\* the same image and configuration returns, as the first call of a process
\* (counter at 1) and after an earlier build that split (counter at 5).
C14_EncodingDeterministic ==
    pc = "compressed" =>
        \A n \in {1, 1 + CHILDREN_PER_TILE} :
            CompressPayloads(n, the_image, the_config) = {compressed_image.data}

\* the earliest of the outputs that no other output is shorter than
EarliestShortest(outputs) ==
    outputs[SetMin({i \in 1..Len(outputs) :
                       \A j \in 1..Len(outputs) :
                           Len(outputs[i]) <= Len(outputs[j])})]

\* C15: adaptive selection.  What AdaptiveEncoder::encode returned is, for
\* a non-empty input without prefer_speed, the earliest shortest of the RLE,
\* DEFLATE and ADVANCED outputs, hence no longer than the RLE output; with
\* prefer_speed the RLE output; for the empty input the single byte 0x00.
C15_AdaptiveSelection ==
    cop.name \in {"AdaptiveEncoder::encode", "AdaptiveEncoder::decode"} =>
        IF cin = <<>> THEN cenc = <<0>>
        ELSE IF cop.prefer_speed THEN cenc = RLECodec_encode(cin)
        ELSE /\ cenc = EarliestShortest(
                           <<RLECodec_encode(cin),
                             DeflateCodec_encode(cin, DefaultWindowSize,
                                                 DefaultMaxMatchLen),
                             AdvancedCodec_encode(cin)>>)
             /\ Len(cenc) <= Len(RLECodec_encode(cin))

-----------------------------------------------------------------------------
(* Claims about the container (specification SpecContainer) *)

\* no key holds '=' or a newline, no value holds a newline
PlainMetadata(m) ==
    \A key \in DOMAIN m :
        /\ \A k \in 1..Len(key) : key[k] \notin {EQUALS, NEWLINE}
        /\ \A k \in 1..Len(m[key]) : m[key][k] # NEWLINE

\* C16: metadata round trip.  Whenever EtcaMetadata::deserialize has run
\* on the output of EtcaMetadata::serialize for a map whose keys hold
\* neither '=' nor a newline and whose values hold no newline (empty keys
\* and values and values with '=' included), the map returned holds exactly
\* the pairs of the map serialized.
C16_MetadataRoundTrip ==
    (cop.name = "EtcaMetadata::deserialize" /\ PlainMetadata(cin)) =>
        cdec = cin

\* a map with an empty value, a value that is "=" and a value with two '='
\* was serialized in key order and read back
C16_Witness ==
    /\ cop.name = "EtcaMetadata::deserialize"
    /\ DOMAIN cin = {<<97>>, <<97, 98>>, <<98>>}
    /\ cin[<<97>>] = <<>>
    /\ cin[<<98>>] = <<120, EQUALS, EQUALS, 121>>
    /\ cenc = <<97, EQUALS, NEWLINE, 97, 98, EQUALS, EQUALS, NEWLINE,
                98, EQUALS, 120, EQUALS, EQUALS, 121, NEWLINE>>
    /\ cdec = cin

\* the four bytes of b from 0-based offset off are x, most significant first
BigEndianAt(b, off, x) ==
    /\ b[off + 1] = (x \div 16777216) % 256
    /\ b[off + 2] = (x \div 65536) % 256
    /\ b[off + 3] = (x \div 256) % 256
    /\ b[off + 4] = x % 256

\* C17: header layout and round trip.  EtcaHeader::serialize returns 20
\* bytes: 45 54 43 41, version, mode, width and height big-endian at 6 and
\* 10, colour depth at 14, metadata size big-endian at 15, 00 at 19; the
\* header version 1, lossy, 640 x 480, depth 0x18, no metadata gives
\* 45 54 43 41 01 00 00 00 02 80 00 00 01 E0 18 00 00 00 00 00; and
\* EtcaHeader::deserialize of the bytes returns the fields serialized
\* whenever the version is 1 and width and height are not 0.
C17_HeaderLayout ==
    (cop.name \in {"EtcaHeader::serialize", "EtcaHeader::deserialize"}
        /\ cop.damage = "none") =>
        /\ Len(cenc) = 20
        /\ SubSeq(cenc, 1, 4) = <<69, 84, 67, 65>>
        /\ cenc[5] = cin.format_version
        /\ cenc[6] = cin.compression_mode
        /\ BigEndianAt(cenc, 6, cin.width)
        /\ BigEndianAt(cenc, 10, cin.height)
        /\ cenc[15] = cin.color_depth
        /\ BigEndianAt(cenc, 15, cin.metadata_size)
        /\ cenc[20] = 0
        /\ cin = [format_version |-> 1, compression_mode |-> 0, width |-> 640,
                  height |-> 480, color_depth |-> 24, metadata_size |-> 0]
              => cenc = <<69, 84, 67, 65, 1, 0, 0, 0, 2, 128, 0, 0, 1, 224,
                          24, 0, 0, 0, 0, 0>>
        /\ (cop.name = "EtcaHeader::deserialize" /\ cin.format_version = 1
                /\ cin.width # 0 /\ cin.height # 0)
              => (cdec.error = "none" /\ cdec.header = cin)

\* a lossless header with a four-byte width and a metadata size was
\* serialized and read back
C17_Witness ==
    /\ cop.name = "EtcaHeader::deserialize"
    /\ cop.damage = "none"
    /\ cin = [format_version |-> 1, compression_mode |-> 1,
              width |-> 16909060, height |-> 480, color_depth |-> 24,
              metadata_size |-> 258]
    /\ SubSeq(cenc, 7, 10) = <<1, 2, 3, 4>>
    /\ SubSeq(cenc, 16, 19) = <<0, 0, 1, 2>>
    /\ cdec.error = "none"
    /\ cdec.header = cin

\* bytes has four first bytes, and they are not 45 54 43 41
OtherMagic(bytes) ==
    Len(bytes) >= 4 /\ SubSeq(bytes, 1, 4) # <<69, 84, 67, 65>>

\* the call failed with the bad-magic error and returned nothing
FailedWithBadMagic ==
    /\ cdec.error = "magic bytes do not match"
    /\ cop.name = "EtcaHeader::deserialize" => cdec.header = NoHeader
    /\ cop.name = "EtcaReader::read" =>
          (cdec.outcome = "threw" /\ cdec.image = NoImage)

\* C18 as stated: bad magic.  Whenever EtcaHeader::deserialize or
\* EtcaReader::read has run on bytes whose first four are not 45 54 43 41,
\* whatever their length and whatever follows, the call failed with the
\* bad-magic error and returned no header and no image.
C18_BadMagic ==
    (cop.name \in {"EtcaHeader::deserialize", "EtcaReader::read"}
        /\ OtherMagic(cenc)) => FailedWithBadMagic

\* C18 as amended: bad magic in a complete header.  Whenever
\* EtcaHeader::deserialize or EtcaReader::read has run on at least 20 bytes
\* whose first four are not 45 54 43 41, whatever the version, the
\* dimensions and the bytes after the header are, the call failed with the
\* bad-magic error and returned no header and no image; on fewer than 20
\* bytes it failed with the error of a header that is too short, whatever
\* the bytes are.
C18_BadMagicInFullHeader ==
    cop.name \in {"EtcaHeader::deserialize", "EtcaReader::read"} =>
        /\ (Len(cenc) >= 20 /\ OtherMagic(cenc)) => FailedWithBadMagic
        /\ Len(cenc) < 20 =>
              cdec.error = IF cop.name = "EtcaReader::read"
                           THEN "Failed to read .etca header"
                           ELSE "header too small"

\* 22 received bytes that start FF FF FF FF, carry version 2 and width 0,
\* were read as a file and refused for their magic
C18_Witness ==
    /\ cop.name = "EtcaReader::read"
    /\ cop.damage = "foreign"
    /\ Len(cenc) = 22
    /\ SubSeq(cenc, 1, 4) = <<255, 255, 255, 255>>
    /\ cenc[5] = 2
    /\ SubSeq(cenc, 7, 10) = <<0, 0, 0, 0>>
    /\ cdec.outcome = "threw"
    /\ cdec.error = "magic bytes do not match"

\* the container header of a file of at least 20 bytes, as the reader
\* parses it
FileHeader(file) == EtcaHeader_deserialize(SubSeq(file, 1, HEADER_SIZE))

\* the payload of a file after entropy decoding, as deserialize_tree sees it
FileTreeBytes(file) ==
    LET data == SubSeq(file,
                       HEADER_SIZE + FileHeader(file).header.metadata_size + 1,
                       Len(file))
    IN  IF data # <<>> /\ data[1] \in {CODEC_NONE, CODEC_RLE, CODEC_DEFLATE,
                                       CODEC_ADVANCED}
        THEN AdaptiveEncoder_decode(data)
        ELSE data

\* the 14-byte tree header is there and its width or height is not the one
\* the container declares
StoredDimensionsDiffer(file) ==
    /\ Len(file) >= HEADER_SIZE
    /\ FileHeader(file).error = "none"
    /\ Len(FileTreeBytes(file)) >= 14
    /\ \/ ReadU32(FileTreeBytes(file), 0) # FileHeader(file).header.width
       \/ ReadU32(FileTreeBytes(file), 4) # FileHeader(file).header.height

\* C19: dimension mismatch.  Whenever EtcaReader::read (hence
\* Decompressor::decompress) has run on a file whose tree header stores a
\* width or height other than the container header declares, the call
\* failed with a dimension-mismatch error and returned no image.
C19_DimensionMismatch ==
    (cop.name = "EtcaReader::read" /\ StoredDimensionsDiffer(cenc)) =>
        /\ cdec.outcome = "threw"
        /\ cdec.error = "dimension mismatch"
        /\ cdec.image = NoImage

\* the record loop stopped before the tile_count records of the tree header
\* were read
RecordsCutShort(tree_data) ==
    Loop(LAMBDA st : Decompressor_parse_record(tree_data,
                                               ReadU32(tree_data, 8), st),
         [off |-> 14, tree |-> NoTree, map |-> <<>>, oob |-> FALSE,
          stop |-> FALSE],
         ReadU32(tree_data, 8)).stop

\* the file ends before a parse step has its bytes: the container header,
\* the metadata blob, the 14-byte tree header, the announced records
CutShort(file) ==
    \/ Len(file) < HEADER_SIZE
    \/ /\ FileHeader(file).error = "none"
       /\ \/ Len(file) < HEADER_SIZE + FileHeader(file).header.metadata_size
          \/ Len(FileTreeBytes(file)) < 14
          \/ /\ ~StoredDimensionsDiffer(file)
             /\ RecordsCutShort(FileTreeBytes(file))

\* C20: truncation.  Whenever EtcaReader::read has run on a file that ends
\* before a parse step has its bytes, the call failed with an error and
\* returned no image.
C20_Truncation ==
    (cop.name = "EtcaReader::read" /\ CutShort(cenc)) =>
        /\ cdec.outcome = "threw"
        /\ cdec.image = NoImage

-----------------------------------------------------------------------------
(* Claims about the decoder (specification SpecDecoder) *)

Decompressed == cop.name = "Decompressor::decompress"

\* the payload came from Compressor::compress of this process
Produced == the_image # NoImage

\* C21: malformed record streams cannot crash the decoder.  Whatever the
\* payload and the tile count it declares, deserialize_tree writes its
\* index table only at positions below that count.
C21_IndexTableInBounds ==
    Decompressed => ~cop.oob

\* C26: the decoder terminates on every input.  Every address walk of
\* deserialize_tree reaches a tile without a recorded parent, and decompress
\* returns.
C26_DecoderTerminates ==
    Decompressed => pc # "hung"

\* C29: decoder dispatch on byte 0.  A payload that begins with 0x01, 0x02
\* or 0x03 is decoded by the RLE, DEFLATE or ADVANCED decoder, one that
\* begins with 0x00 is taken as the bytes after it, one that begins with any
\* other byte is parsed as it is, and the legacy branches are never taken.
C29_DispatchOnByteZero ==
    (Decompressed /\ compressed_image.data # <<>>) =>
        LET data == compressed_image.data
        IN  /\ cop.branch \in {"entropy", "unknown"}
            /\ data[1] = CODEC_RLE => cdec = RLECodec_decode(data)
            /\ data[1] = CODEC_DEFLATE => cdec = DeflateCodec_decode(data)
            /\ data[1] = CODEC_ADVANCED => cdec = AdvancedCodec_decode(data)
            /\ data[1] = CODEC_NONE => cdec = Tail(data)
            /\ data[1] \notin {CODEC_NONE, CODEC_RLE, CODEC_DEFLATE,
                               CODEC_ADVANCED}
                 => cop.branch = "unknown" /\ cdec = data

\* a payload that begins with the byte 4 was parsed, first byte included,
\* into its one white tile
C29_Witness ==
    /\ Decompressed
    /\ pc = "decompressed"
    /\ compressed_image.data # <<>>
    /\ compressed_image.data[1] = 4
    /\ cdec = OneTileTree(WideWidth, 0)
    /\ decoded_tree.tiles[ROOT_ID].color = WHITE
    /\ decoded_tree.image_width = WideWidth

\* the leaves of a tree whose fill regions share a pixel
OverlappingLeaves(tree) ==
    {ab \in LeavesOf(tree) \X LeavesOf(tree) :
        /\ ab[1] < ab[2]
        /\ Decompressor_fill_region(tree, ab[1])
             \cap Decompressor_fill_region(tree, ab[2]) # {}}

\* C22: parallel leaf fill is race-free.  For every payload compress
\* produced, the pixel sets reconstruct_image fills for distinct leaves are
\* pairwise disjoint, and the image does not depend on the order in which
\* the leaf workers run.
C22_LeafFillRaceFree ==
    (Decompressed /\ Produced /\ pc = "decompressed") =>
        /\ OverlappingLeaves(decoded_tree) = {}
        /\ Decompressor_reconstruct_image_outcomes(decoded_tree) = {output_image}

\* the tiles a reconstruction limited to depth d paints: the leaves no
\* deeper than d and the subdivided tiles of depth d
LodTiles(tree, d) ==
    {id \in DOMAIN tree.tiles :
        /\ tree.tiles[id].depth <= d
        /\ tree.tiles[id].children = <<>> \/ tree.tiles[id].depth = d}

\* the image such a reconstruction gives
LodImage(tree, d) ==
    Decompressor_paint_leaves(tree,
        ColorData_new(tree.image_width, tree.image_height),
        SortedIds(LodTiles(tree, d)), 1)

\* C30: level-of-detail limit.  decompress with max_depth = d >= 0 paints no
\* tile deeper than d, a region subdivided below depth d getting the colour
\* of its depth-d ancestor; with max_depth = -1 all leaves are painted.
C30_LevelOfDetail ==
    (Decompressed /\ Produced /\ pc = "decompressed") =>
        IF cop.max_depth < 0
        THEN output_image \in Decompressor_reconstruct_image_outcomes(decoded_tree)
        ELSE output_image = LodImage(decoded_tree, cop.max_depth)

-----------------------------------------------------------------------------
(* Claims about the serialized tree *)

\* the index (0-based) of tile id in the enumeration all_tiles
IndexIn(all_tiles, id) ==
    (CHOOSE k \in 1..Len(all_tiles) : all_tiles[k] = id) - 1

\* tree d is tree t read back: as many tiles, tile i + 1 of d with the
\* depth, colour, children (as indices) and address of the i-th enumerated
\* tile of t, and every tile but the first listed by the parent it names
SameTree(t, d) ==
    LET all_tiles == SpectreTree_get_all_tiles(t)
        listed == {all_tiles[k] : k \in 1..Len(all_tiles)}
    IN  /\ Cardinality(DOMAIN d.tiles) = Len(all_tiles)
        /\ \A i \in 0..(Len(all_tiles) - 1) :
              LET tile == t.tiles[all_tiles[i + 1]]
              IN  /\ (i + 1) \in DOMAIN d.tiles
                  /\ d.tiles[i + 1].depth = tile.depth
                  /\ d.tiles[i + 1].color = tile.color
                  /\ Len(d.tiles[i + 1].children) = Len(tile.children)
                  /\ \A k \in 1..Len(tile.children) :
                        /\ tile.children[k] \in listed
                        /\ d.tiles[i + 1].children[k]
                             = IndexIn(all_tiles, tile.children[k]) + 1
                  /\ i > 0 =>
                        /\ d.tiles[i + 1].parent_id \in DOMAIN d.tiles
                        /\ \E k \in 1..Len(d.tiles[d.tiles[i + 1].parent_id].children) :
                              d.tiles[d.tiles[i + 1].parent_id].children[k] = i + 1
                  /\ SpectreTree_get_address(d, i + 1)
                       = SpectreTree_get_address(t, all_tiles[i + 1])

\* what deserialize_tree makes of payload data for the built image
ReadBack(data) ==
    Decompressor_deserialize_tree(data, the_image.width, the_image.height).tree

\* C24: tree serialization round trip.  deserialize_tree applied to the
\* serialize_tree output of a built tree (as it is, or behind the marker of
\* an unencoded payload) yields the same tree: tile count, and per tile the
\* depth, colour, child indices, parent and hierarchical address.
C24_TreeRoundTrip ==
    Built =>
        LET data == Compressor_serialize_tree(the_tree, the_image)
        IN  \/ SameTree(the_tree, ReadBack(data))
            \/ SameTree(the_tree, ReadBack(<<CODEC_NONE>> \o data))

\* C25: record indices identify tiles.  In the output of serialize_tree the
\* i-th record carries tile_index i, distinct tiles carry distinct indices
\* and none carries the value 0xFFFF reserved for "no parent", for every
\* tile count, 65535 and more included.
C25_IndicesIdentifyTiles ==
    cop.name = "Compressor::serialize_tree" =>
        /\ \A k \in 1..2 : /\ cenc[k].tile_index = cenc[k].position
                           /\ cenc[k].tile_index # NO_INDEX
        /\ cenc[1].position # cenc[2].position
              => cenc[1].tile_index # cenc[2].tile_index

-----------------------------------------------------------------------------
(* Further claims about the tree (specification Spec) *)

\* the tiles whose rectangle has no pixel
Degenerate(t) ==
    {id \in DOMAIN t.tiles : BoundsOf(t, id)[3] = 0 \/ BoundsOf(t, id)[4] = 0}

\* C27: degenerate tiles appear only at maximum recursion.  In every tree
\* built with a threshold >= 0 a tile whose rectangle has width 0 or height
\* 0 has depth max_depth, every tile above that depth holds a pixel, and a
\* 1x1 region is never subdivided.
C27_DegenerateOnlyAtMaxDepth ==
    (Built /\ the_config.variance_threshold >= 0) =>
        /\ \A id \in Degenerate(the_tree) :
              the_tree.tiles[id].depth = the_config.max_tree_depth
        /\ \A id \in DOMAIN the_tree.tiles :
              (BoundsOf(the_tree, id)[3] = 1 /\ BoundsOf(the_tree, id)[4] = 1)
                  => the_tree.tiles[id].children = <<>>

-----------------------------------------------------------------------------
(* Further claims about the entropy codecs (specification SpecCodec) *)

\* a 3-byte pattern of distinct bytes, none 0xFF, three times
Periodic(input) ==
    /\ Len(input) = 9
    /\ \A k \in 4..9 : input[k] = input[k - 3]
    /\ Cardinality({input[1], input[2], input[3]}) = 3
    /\ \A k \in 1..3 : input[k] # MATCH_MARKER

\* C23: DEFLATE on periodic input.  For a pattern x y z repeated three
\* times DeflateCodec::encode returns 02, the literals x y z and the single
\* match token FF 00 06 00 03 (length 6, distance 3), and the decoder
\* reproduces the input.
C23_DeflatePeriodic ==
    (/\ cop.name \in {"DeflateCodec::encode", "DeflateCodec::decode"}
     /\ cop.window_size = DefaultWindowSize
     /\ cop.max_match_len = DefaultMaxMatchLen
     /\ Periodic(cin)) =>
        /\ cenc = <<CODEC_DEFLATE, cin[1], cin[2], cin[3],
                    MATCH_MARKER, 0, 6, 0, 3>>
        /\ cop.name = "DeflateCodec::decode" => cdec = cin

\* the tokens of the RLE format for an input, scanning left to right: a
\* maximal run (capped at MaxRun) of at least MinRun equal bytes, an escaped
\* marker, or a byte as it is
RECURSIVE RleTokens(_)
RleTokens(input) ==
    IF input = <<>> THEN <<>>
    ELSE LET v == Head(input)
             cap == IF Len(input) < MaxRun THEN Len(input) ELSE MaxRun
             L == SetMax({n \in 1..cap : \A k \in 1..n : input[k] = v})
         IN  IF L >= MinRun
             THEN <<[run |-> TRUE, value |-> v, bytes |-> <<RLE_MARKER, v, L>>]>>
                    \o RleTokens(SubSeq(input, L + 1, Len(input)))
             ELSE IF v = RLE_MARKER
             THEN <<[run |-> FALSE, value |-> v,
                     bytes |-> <<RLE_MARKER, RLE_MARKER>>]>>
                    \o RleTokens(Tail(input))
             ELSE <<[run |-> FALSE, value |-> v, bytes |-> <<v>>]>>
                    \o RleTokens(Tail(input))

\* C28: RLE output format.  For a non-empty input RLECodec::encode returns
\* 01 followed by the tokens of the input (ten AA, one FF, three BB give
\* 01 FF AA 0A FF FF BB BB BB), and no run token FF v L of the output has
\* v = 0xFF.
C28_RLEFormat ==
    (cop.name = "RLECodec::encode" /\ cin # <<>>) =>
        LET tokens == RleTokens(cin)
        IN  /\ cenc = <<CODEC_RLE>>
                        \o Flatten([k \in 1..Len(tokens) |-> tokens[k].bytes])
            /\ cin = RleScenario =>
                  cenc = <<1, 255, 170, 10, 255, 255, 187, 187, 187>>
            /\ \A k \in 1..Len(tokens) :
                  tokens[k].run => tokens[k].value # RLE_MARKER

====
